---- MODULE Spec2Model ----
(***************************************************************************)
(* ComplianceVault: compliance scoring and BIA tiering engine.            *)
(*                                                                         *)
(* The model follows src/app/routes/dashboard.py, src/app/routes/bia.py,  *)
(* src/app/routes/evaluations.py and the tables of src/app/models.py.     *)
(*                                                                         *)
(* Conventions                                                            *)
(*  - A percentage with one decimal (a Python float rounded with           *)
(*    round(x, 1)) is held as an integer number of tenths: 100.0 is 1000,  *)
(*    62.5 is 625.                                                         *)
(*  - Python None is the string "None"; a nullable boolean column holds    *)
(*    "True", "False" or "None".                                           *)
(*  - A request that raises (HTTPException, TypeError, AttributeError)     *)
(*    before db.commit() leaves the database as it was: the session is     *)
(*    discarded.  Such a request is no step of the model; the condition    *)
(*    under which the handler reaches db.commit() is the action's guard.   *)
(***************************************************************************)
EXTENDS Integers, Sequences, FiniteSets, TLC

(***************************************************************************)
(* Bounds of the model                                                     *)
(***************************************************************************)
MaxCount == 3
MaxTotal == 4
MaxHistory == 3
MaxEvidence == 1
MaxComments == 1
MaxProcs == 2
MaxAssets == 2

None == "None"

Orgs == {"orgA", "orgB"}

(***************************************************************************)
(* Small helpers                                                           *)
(***************************************************************************)
Max2(a, b) == IF a >= b THEN a ELSE b

Range(s) == {s[i] : i \in DOMAIN s}

\* Python round(n / d, 0) on an exactly representable quotient: the nearest
\* integer, a tie going to the even neighbour.  n >= 0, d > 0.
RoundHalfEven(n, d) ==
    LET q == n \div d
        r == n % d
    IN  IF 2 * r > d \/ (2 * r = d /\ q % 2 = 1) THEN q + 1 ELSE q

(***************************************************************************)
(* models.py: EvaluationStatus                                             *)
(***************************************************************************)
NOT_EVALUATED == "not_evaluated"
FULLY_APPLIED == "fully_applied"
PARTIALLY_APPLIED == "partially_applied"
LOW_APPLIED == "low_applied"
NOT_APPLIED == "not_applied"

EvaluationStatus ==
    {NOT_EVALUATED, FULLY_APPLIED, PARTIALLY_APPLIED, LOW_APPLIED, NOT_APPLIED}

(***************************************************************************)
(* dashboard.py: calculate_score and get_status_color                      *)
(***************************************************************************)
\* A plausible slip: the quotient truncated instead of rounded.
calculate_score_trunc(fully, partial, low, total) ==
    IF total = 0 THEN 0
    ELSE ((4 * fully + 2 * partial + low) * 1000) \div (4 * total)

\* round((fully + 0.5*partial + 0.25*low) / total * 100, 1), in tenths.
\* (fully + 0.5*partial + 0.25*low) is the exact dyadic (4f + 2p + l) / 4.
\* For every total below 20 the double computed by "/ total * 100" rounds
\* as the exact rational does, ties to even (6.25 -> 6.2, 18.75 -> 18.8).
calculate_score(fully, partial, low, total) ==
    IF total = 0 THEN 0
    ELSE RoundHalfEven((4 * fully + 2 * partial + low) * 1000, 4 * total)

get_status_color(score) ==
    IF score >= 800 THEN "green"
    ELSE IF score >= 500 THEN "amber"
    ELSE "red"

(***************************************************************************)
(* State                                                                   *)
(***************************************************************************)
VARIABLES
    controls,     \* table controls: the catalog, in storage order
    evaluations,  \* table evaluations: set of rows
    evidence,     \* table evidence: set of rows
    comments,     \* table comments: set of rows
    history,      \* table change_history: number of rows per organization
    settings,     \* table organization_settings: set of rows
    processes,    \* table bia_processes: set of rows
    assets,       \* table information_assets: rows in storage order
    args,         \* arguments of a call of a pure function
    result        \* <<>> before the call, <<return value>> after it

vars == <<controls, evaluations, evidence, comments, history, settings,
          processes, assets, args, result>>

dbvars == <<controls, evaluations, evidence, comments, history, settings,
            processes, assets>>

\* The database after create_all and before any request, with catalog cat.
EmptyDb(cat) ==
    /\ controls = cat
    /\ evaluations = {}
    /\ evidence = {}
    /\ comments = {}
    /\ history = [o \in Orgs |-> 0]
    /\ settings = {}
    /\ processes = {}
    /\ assets = <<>>

(***************************************************************************)
(* models.py: Control.  The catalog is seeded once and never changed by a  *)
(* request.  Each catalog is a list of rows in storage order.              *)
(***************************************************************************)
Control(id, code, dc, baseline) ==
    [id |-> id, control_code |-> code, domain_code |-> dc,
     is_baseline |-> baseline]

\* One domain, one baseline and one additional control.
CatalogSmall ==
    <<Control(1, "AM-1", "AM", TRUE), Control(2, "AM-2", "AM", FALSE)>>

\* Two domains; the second has no baseline control.
CatalogTwoDomains ==
    <<Control(1, "AM-1", "AM", TRUE), Control(2, "AM-2", "AM", FALSE),
      Control(3, "CM-1", "CM", FALSE)>>

\* One domain with two baseline and two additional controls.
CatalogOneDomain ==
    <<Control(1, "AM-1", "AM", TRUE), Control(2, "AM-2", "AM", TRUE),
      Control(3, "AM-3", "AM", FALSE), Control(4, "AM-4", "AM", FALSE)>>

ControlCodes == {"AM-1", "AM-2", "AM-3", "AM-4", "CM-1", "ZZ-9"}

\* A slip in the lookup: the filter on control_code dropped, .first() then
\* returns some control of the catalog.
ControlsByCode_any(code) == Range(controls)

\* db.query(Control).filter(Control.control_code == control_code): the rows.
ControlsByCode(code) == {c \in Range(controls) : c.control_code = code}

(***************************************************************************)
(* evaluations.py: the get-or-create lookup, update_evaluation,            *)
(* upload_evidence, add_comment, log_change                                *)
(***************************************************************************)
\* A slip in the lookup: rows still not evaluated are not found.
FindEvaluation_evaluated_only(org, control) ==
    {e \in evaluations : /\ e.organization_id = org
                         /\ e.control_id = control.id
                         /\ e.status # NOT_EVALUATED}

\* db.query(Evaluation).filter(organization_id == ..., control_id == ...):
\* the rows of which .first() returns one.
FindEvaluation(org, control) ==
    {e \in evaluations : /\ e.organization_id = org
                         /\ e.control_id = control.id}

\* generate_uuid: a primary key no other row has.  The key names the pair
\* and the number of rows the pair already has.
NewEvaluationId(org, control) ==
    <<org, control.id,
      Cardinality({e \in evaluations : /\ e.organization_id = org
                                       /\ e.control_id = control.id}) + 1>>

\* A slip in the defaults: a new row is marked applicable.
NewEvaluation_applicable(org, control) ==
    [id |-> NewEvaluationId(org, control), organization_id |-> org,
     control_id |-> control.id, status |-> NOT_EVALUATED,
     is_applicable |-> "True"]

\* Evaluation(organization_id=..., control_id=...) with the column defaults.
NewEvaluation(org, control) ==
    [id |-> NewEvaluationId(org, control), organization_id |-> org,
     control_id |-> control.id, status |-> NOT_EVALUATED,
     is_applicable |-> None]

\* A slip: without an explicit value only an applied status makes an
\* additional control applicable.
UpdatedEvaluation_applied_only(e, control, status, is_applicable) ==
    [e EXCEPT
        !.status = status,
        !.is_applicable =
            IF is_applicable # None THEN is_applicable
            ELSE IF ~control.is_baseline
                 THEN (IF status \in {FULLY_APPLIED, PARTIALLY_APPLIED,
                                      LOW_APPLIED}
                       THEN "True" ELSE "False")
                 ELSE @]

\* Lines 134-148 of update_evaluation: the fields written to the row.
UpdatedEvaluation(e, control, status, is_applicable) ==
    [e EXCEPT
        !.status = status,
        !.is_applicable =
            IF is_applicable # None THEN is_applicable
            ELSE IF ~control.is_baseline
                 THEN (IF status = NOT_EVALUATED THEN "False" ELSE "True")
                 ELSE @]

\* log_change: one ChangeHistory row for the caller's organization.
log_change(org) == history' = [history EXCEPT ![org] = @ + 1]

\* Number of rows of table change_history.
RECURSIVE HistoryRows(_)
HistoryRows(orgs) ==
    IF orgs = {} THEN 0
    ELSE LET o == CHOOSE x \in orgs : TRUE
         IN  history[o] + HistoryRows(orgs \ {o})

update_evaluation(org, control_code, status, is_applicable) ==
    /\ ControlsByCode(control_code) # {}
    /\ HistoryRows(Orgs) < MaxHistory
    /\ \E control \in ControlsByCode(control_code) :
          IF FindEvaluation(org, control) # {}
          THEN \E e \in FindEvaluation(org, control) :
                  evaluations' = (evaluations \ {e}) \cup
                      {UpdatedEvaluation(e, control, status, is_applicable)}
          ELSE evaluations' = evaluations \cup
                  {UpdatedEvaluation(NewEvaluation(org, control), control,
                                     status, is_applicable)}
    /\ log_change(org)
    /\ UNCHANGED <<controls, evidence, comments, settings, processes, assets,
                   args, result>>

ALLOWED_MIME_TYPES == {"image/jpeg", "image/png", "application/pdf"}

upload_evidence(org, control_code, content_type) ==
    /\ content_type \in ALLOWED_MIME_TYPES
    /\ ControlsByCode(control_code) # {}
    /\ HistoryRows(Orgs) < MaxHistory
    /\ Cardinality(evidence) < MaxEvidence
    /\ \E control \in ControlsByCode(control_code) :
       \E id \in (1..MaxEvidence) \ {v.id : v \in evidence} :
          IF FindEvaluation(org, control) # {}
          THEN /\ \E e \in FindEvaluation(org, control) :
                    evidence' = evidence \cup
                        {[id |-> id, evaluation_id |-> e.id]}
               /\ UNCHANGED evaluations
          ELSE /\ evaluations' = evaluations \cup {NewEvaluation(org, control)}
               /\ evidence' = evidence \cup
                    {[id |-> id,
                      evaluation_id |-> NewEvaluation(org, control).id]}
    /\ log_change(org)
    /\ UNCHANGED <<controls, comments, settings, processes, assets,
                   args, result>>

\* A slip: the evaluation of the evidence is looked up by id alone.
OwningEvaluation_any_org(org, v) ==
    {e \in evaluations : e.id = v.evaluation_id}

\* "Verify ownership": db.query(Evaluation).filter(Evaluation.id ==
\* evidence.evaluation_id, Evaluation.organization_id == caller's org).
OwningEvaluation(org, v) ==
    {e \in evaluations : /\ e.id = v.evaluation_id
                         /\ e.organization_id = org}

\* The status of download_evidence, the file being on the server.
download_evidence(org, evidence_id) ==
    LET found == {v \in evidence : v.id = evidence_id}
    IN  IF found = {} THEN 404
        ELSE IF \A v \in found : OwningEvaluation(org, v) = {} THEN 403
        ELSE 200

\* The caller is the uploader or an admin of org; control_code is only
\* written to the change log.
delete_evidence(org, evidence_id) ==
    /\ HistoryRows(Orgs) < MaxHistory
    /\ \E v \in evidence :
          /\ v.id = evidence_id
          /\ OwningEvaluation(org, v) # {}
          /\ evidence' = evidence \ {v}
    /\ log_change(org)
    /\ UNCHANGED <<controls, evaluations, comments, settings, processes,
                   assets, args, result>>

add_comment(org, control_code) ==
    /\ ControlsByCode(control_code) # {}
    /\ HistoryRows(Orgs) < MaxHistory
    /\ Cardinality(comments) < MaxComments
    /\ \E control \in ControlsByCode(control_code) :
          IF FindEvaluation(org, control) # {}
          THEN /\ \E e \in FindEvaluation(org, control) :
                    comments' = comments \cup
                        {[id |-> Cardinality(comments) + 1,
                          evaluation_id |-> e.id]}
               /\ UNCHANGED evaluations
          ELSE /\ evaluations' = evaluations \cup {NewEvaluation(org, control)}
               /\ comments' = comments \cup
                    {[id |-> Cardinality(comments) + 1,
                      evaluation_id |-> NewEvaluation(org, control).id]}
    /\ log_change(org)
    /\ UNCHANGED <<controls, evidence, settings, processes, assets,
                   args, result>>

(***************************************************************************)
(* bia.py: calculate_criticality and calculate_security_level              *)
(***************************************************************************)
\* A slip: the first term adds the weight to the impact.
WeightedSum_plus(impact, weight) ==
    impact.reputation + weight.reputation
        + impact.external * weight.external
        + impact.internal * weight.internal
        + impact.legal * weight.legal
        + impact.economic * weight.economic

WeightedSum(impact, weight) ==
    impact.reputation * weight.reputation
        + impact.external * weight.external
        + impact.internal * weight.internal
        + impact.legal * weight.legal
        + impact.economic * weight.economic

\* A slip: round(min(1.25 * sum, 100)) in place of int(), half-even.
calculate_criticality_round(impact, weight) ==
    LET x == 5 * WeightedSum(impact, weight)
    IN  IF x >= 400 THEN 100 ELSE RoundHalfEven(x, 4)

\* int(min(1.25 * sum, 100)): 1.25 * sum is exact in a double, min caps it
\* at 100 and int() truncates toward zero.
calculate_criticality(impact, weight) ==
    LET x == 5 * WeightedSum(impact, weight)
    IN  IF x >= 400 THEN 100
        ELSE IF x >= 0 THEN x \div 4
        ELSE 0 - ((0 - x) \div 4)

\* A slip: the availability rating is left out of the maximum.
calculate_security_level_no_a(rating) ==
    LET max_rating == Max2(rating.c, rating.i)
    IN  IF max_rating >= 3 THEN "High"
        ELSE IF max_rating = 2 THEN "Medium"
        ELSE "Low"

calculate_security_level(rating) ==
    LET max_rating == Max2(rating.c, Max2(rating.i, rating.a))
    IN  IF max_rating >= 3 THEN "High"
        ELSE IF max_rating = 2 THEN "Medium"
        ELSE "Low"

(***************************************************************************)
(* bia.py: settings and process endpoints                                  *)
(***************************************************************************)
\* OrganizationSettings(organization_id=...) with the column defaults.
DefaultSettings(org) ==
    [organization_id |-> org,
     weight |-> [reputation |-> 3, external |-> 3, internal |-> 2,
                 legal |-> 4, economic |-> 2]]

\* db.query(OrganizationSettings).filter(organization_id == ...): the rows.
FindSettings(org) == {s \in settings : s.organization_id = org}

\* for key, value in data.model_dump(exclude_unset=True).items():
\*     setattr(row, key, value)
\* on the fields named in data; the other fields keep their value.
SetAttrs(old, data) ==
    [f \in DOMAIN old |-> IF f \in DOMAIN data THEN data[f] ELSE old[f]]

\* The lazy creation shared by get_settings, list_processes, create_process.
EnsureSettings(org) ==
    IF FindSettings(org) = {} THEN settings \cup {DefaultSettings(org)}
    ELSE settings

get_settings(org) ==
    /\ FindSettings(org) = {}
    /\ settings' = EnsureSettings(org)
    /\ UNCHANGED <<controls, evaluations, evidence, comments, history,
                   processes, assets, args, result>>

list_processes(org) ==
    /\ FindSettings(org) = {}
    /\ settings' = EnsureSettings(org)
    /\ UNCHANGED <<controls, evaluations, evidence, comments, history,
                   processes, assets, args, result>>

\* A slip: the bulk pass of update_settings left out.
RecomputeProcesses_stale(org, weight) == processes

\* for proc in processes: proc.criticality_score = calculate_criticality(..)
\* over the processes of the caller's organization.
RecomputeProcesses(org, weight) ==
    {IF p.organization_id = org
     THEN [p EXCEPT !.criticality_score = calculate_criticality(p.impact, weight)]
     ELSE p : p \in processes}

update_settings(org, data) ==
    \E old \in (IF FindSettings(org) = {} THEN {DefaultSettings(org)}
                ELSE FindSettings(org)) :
        LET new == [old EXCEPT !.weight = SetAttrs(old.weight, data)]
        IN  /\ settings' = (settings \ {old}) \cup {new}
            /\ processes' = RecomputeProcesses(org, new.weight)
            /\ UNCHANGED <<controls, evaluations, evidence, comments, history,
                           assets, args, result>>

create_process(org, impact) ==
    /\ Cardinality(processes) < MaxProcs
    /\ settings' = EnsureSettings(org)
    /\ \E id \in (1..MaxProcs) \ {p.id : p \in processes} :
       \E s \in {x \in EnsureSettings(org) : x.organization_id = org} :
          processes' = processes \cup
              {[id |-> id, organization_id |-> org, impact |-> impact,
                criticality_score |-> calculate_criticality(impact, s.weight)]}
    /\ UNCHANGED <<controls, evaluations, evidence, comments, history,
                   assets, args, result>>

\* data.values: the fields sent with an integer; data.nulls: the fields sent
\* as null, which pass validation (Optional[int]) and make
\* calculate_criticality raise TypeError before the commit.
update_process(org, process_id, data) ==
    /\ data.nulls = {}
    /\ \E process \in {p \in processes : /\ p.id = process_id
                                         /\ p.organization_id = org} :
       \E s \in FindSettings(org) :
          LET impact == SetAttrs(process.impact, data.values)
          IN  processes' = (processes \ {process}) \cup
                  {[process EXCEPT
                      !.impact = impact,
                      !.criticality_score =
                          calculate_criticality(impact, s.weight)]}
    /\ UNCHANGED <<controls, evaluations, evidence, comments, history,
                   settings, assets, args, result>>

\* A slip: the assets of the deleted process are kept (no cascade).
CascadeAssets_none(process_id) == assets

\* relationship("InformationAsset", cascade="all, delete-orphan"): the rows
\* of information_assets left once the process's assets are deleted with it.
CascadeAssets(process_id) ==
    SelectSeq(assets, LAMBDA x : x.process_id # process_id)

delete_process(org, process_id) ==
    /\ \E process \in {p \in processes : /\ p.id = process_id
                                         /\ p.organization_id = org} :
          /\ processes' = processes \ {process}
          /\ assets' = CascadeAssets(process.id)
    /\ UNCHANGED <<controls, evaluations, evidence, comments, history,
                   settings, args, result>>

(***************************************************************************)
(* bia.py: asset endpoints                                                 *)
(***************************************************************************)
\* A slip: the level is computed on create only and kept on update.
AssetLevelOnUpdate_kept(old, rating) == old.security_level

\* asset.security_level = calculate_security_level(asset) in update_asset.
AssetLevelOnUpdate(old, rating) == calculate_security_level(rating)

create_asset(org, process_id, rating) ==
    /\ Len(assets) < MaxAssets
    /\ \E process \in {p \in processes : /\ p.id = process_id
                                         /\ p.organization_id = org} :
       \E id \in (1..MaxAssets) \ {x.id : x \in Range(assets)} :
          assets' = Append(assets,
              [id |-> id, organization_id |-> org, process_id |-> process.id,
               rating |-> rating,
               security_level |-> calculate_security_level(rating)])
    /\ UNCHANGED <<controls, evaluations, evidence, comments, history,
                   settings, processes, args, result>>

\* data.nulls: ratings sent as null make max() raise TypeError before the
\* commit.
update_asset(org, asset_id, data) ==
    /\ data.nulls = {}
    /\ \E k \in DOMAIN assets :
          /\ assets[k].id = asset_id
          /\ assets[k].organization_id = org
          /\ LET asset == assets[k]
                 rating == SetAttrs(asset.rating, data.values)
             IN  assets' = [assets EXCEPT ![k] =
                    [asset EXCEPT
                        !.rating = rating,
                        !.security_level = AssetLevelOnUpdate(asset, rating)]]
    /\ UNCHANGED <<controls, evaluations, evidence, comments, history,
                   settings, processes, args, result>>

delete_asset(org, asset_id) ==
    /\ \E k \in DOMAIN assets :
          /\ assets[k].id = asset_id
          /\ assets[k].organization_id = org
    /\ assets' = SelectSeq(assets,
                    LAMBDA x : ~(x.id = asset_id /\ x.organization_id = org))
    /\ UNCHANGED <<controls, evaluations, evidence, comments, history,
                   settings, processes, args, result>>

(***************************************************************************)
(* Tier resolution: dashboard.py lines 41-72 and bia.py get_compliance_level *)
(***************************************************************************)
\* A slip: the organization's first asset is fetched, then its level tested.
FirstAssetWithLevel_first_only(org, level) ==
    LET rows == SelectSeq(assets, LAMBDA x : x.organization_id = org)
    IN  IF rows = <<>> THEN <<>>
        ELSE IF Head(rows).security_level = level THEN <<Head(rows)>>
        ELSE <<>>

\* db.query(InformationAsset).filter(organization_id == org,
\*     security_level == level).first(): <<>> for None, else <<row>>.
FirstAssetWithLevel(org, level) ==
    LET rows == SelectSeq(assets, LAMBDA x : /\ x.organization_id = org
                                              /\ x.security_level = level)
    IN  IF rows = <<>> THEN <<>> ELSE <<Head(rows)>>

\* db.query(BIAProcess).filter(organization_id == org).count()
process_count(org) == Cardinality({p \in processes : p.organization_id = org})

\* Lines 41-72 of get_dashboard_overview.
DashboardTier(org) ==
    LET has_high == FirstAssetWithLevel(org, "High")
        has_medium == FirstAssetWithLevel(org, "Medium")
        is_assessed == process_count(org) > 0
    IN  IF has_high # <<>>
        THEN [bia_level |-> "High", additional_multiplier |-> 2,
              is_assessed |-> is_assessed]
        ELSE IF has_medium # <<>>
        THEN [bia_level |-> "Medium", additional_multiplier |-> 1,
              is_assessed |-> is_assessed]
        ELSE [bia_level |-> "Low", additional_multiplier |-> 0,
              is_assessed |-> is_assessed]

get_compliance_level(org) ==
    LET has_high == FirstAssetWithLevel(org, "High")
        has_medium == FirstAssetWithLevel(org, "Medium")
        is_assessed == process_count(org) > 0
    IN  IF has_high # <<>>
        THEN [level |-> "High", controls |-> "Baseline + 2+",
              is_assessed |-> is_assessed]
        ELSE IF has_medium # <<>>
        THEN [level |-> "Medium", controls |-> "Baseline + 1+",
              is_assessed |-> is_assessed]
        ELSE [level |-> "Low", controls |-> "Baseline",
              is_assessed |-> is_assessed]

(***************************************************************************)
(* dashboard.py: get_dashboard_overview, the aggregation (lines 75-273)    *)
(***************************************************************************)
APPLIED == {FULLY_APPLIED, PARTIALLY_APPLIED, LOW_APPLIED}

\* eval_map = {e.control_id: e for e in evaluations}: one row per control
\* id.  The query has no ORDER BY, so were a control to have several rows,
\* any of them may be the one the dict keeps: the set of possible dicts.
EvalMaps(org) ==
    LET rows == {e \in evaluations : e.organization_id = org}
        ids == {e.control_id : e \in rows}
    IN  {m \in [ids -> rows] : \A c \in ids : m[c].control_id = c}

\* A slip: "eval_obj.evidence is not None", true of every relationship list.
HasEvidence_not_none(e) == TRUE

\* eval_obj.evidence and len(eval_obj.evidence) > 0
HasEvidence(e) == \E v \in evidence : v.evaluation_id = e.id

\* A slip: only the explicit flag is honoured (no "retroactive fix").
is_implicitly_applicable_flag_only(e) == e.is_applicable = "True"

\* eval_obj.is_applicable or eval_obj.status in [FULLY, PARTIALLY, LOW]
is_implicitly_applicable(e) == e.is_applicable = "True" \/ e.status \in APPLIED

Inc(r, f) == [r EXCEPT ![f] = @ + 1]

\* A slip: the partial and low counters taken for each other.
StatusField_swapped(status, f, p, l, n) ==
    IF status = FULLY_APPLIED THEN f
    ELSE IF status = PARTIALLY_APPLIED THEN l
    ELSE IF status = LOW_APPLIED THEN p
    ELSE IF status = NOT_APPLIED THEN n
    ELSE ""

\* The field of a counter record that status adds to, given the names of
\* the three (or four) fields; "" when the status adds to none.
StatusField(status, f, p, l, n) ==
    IF status = FULLY_APPLIED THEN f
    ELSE IF status = PARTIALLY_APPLIED THEN p
    ELSE IF status = LOW_APPLIED THEN l
    ELSE IF status = NOT_APPLIED THEN n
    ELSE ""

IncStatus(r, status, f, p, l, n) ==
    IF StatusField(status, f, p, l, n) = "" THEN r
    ELSE Inc(r, StatusField(status, f, p, l, n))

\* Lines 89-107: the accumulators of the first loop.
ZeroOverall(baseline_count) ==
    [fully_applied |-> 0, partially_applied |-> 0, low_applied |-> 0,
     not_applied |-> 0, evaluated |-> 0,
     baseline_fully |-> 0, baseline_partial |-> 0, baseline_low |-> 0,
     additional_applicable |-> 0, additional_fully |-> 0,
     additional_partial |-> 0, additional_low |-> 0,
     applicable_count |-> baseline_count, controls_with_evidence |-> 0]

\* Lines 110-154: the body of the first loop for one control.
OverallStep(control, eval_map, acc) ==
    IF control.id \notin DOMAIN eval_map THEN acc
    ELSE LET eval_obj == eval_map[control.id]
             a1 == Inc(acc, "evaluated")
             a2 == IF HasEvidence(eval_obj)
                   THEN Inc(a1, "controls_with_evidence") ELSE a1
             a3 == IncStatus(a2, eval_obj.status, "fully_applied",
                             "partially_applied", "low_applied", "not_applied")
         IN  IF eval_obj.status = NOT_EVALUATED THEN acc
             ELSE IF control.is_baseline
             THEN IncStatus(a3, eval_obj.status, "baseline_fully",
                            "baseline_partial", "baseline_low", "")
             ELSE IF is_implicitly_applicable(eval_obj)
             THEN IncStatus(Inc(Inc(a3, "applicable_count"),
                                "additional_applicable"),
                            eval_obj.status, "additional_fully",
                            "additional_partial", "additional_low", "")
             ELSE a3

RECURSIVE OverallLoop(_, _, _)
OverallLoop(cs, eval_map, acc) ==
    IF cs = <<>> THEN acc
    ELSE OverallLoop(Tail(cs), eval_map, OverallStep(Head(cs), eval_map, acc))

\* Lines 161-180: a new entry of domain_data.
ZeroDomain ==
    [total |-> 0, baseline |-> 0, baseline_fully |-> 0,
     baseline_partial |-> 0, baseline_low |-> 0, applicable |-> 0,
     additional_applicable |-> 0, additional_fully |-> 0,
     additional_partial |-> 0, additional_low |-> 0,
     fully |-> 0, partial |-> 0, low |-> 0, not_applied |-> 0,
     not_evaluated |-> 0]

\* Lines 182-222: what the second loop adds to the entry of one control's
\* domain.
DomainEntryStep(control, eval_map, data) ==
    LET has == control.id \in DOMAIN eval_map
        eval_obj == eval_map[control.id]
        d1 == Inc(data, "total")
        d2 == IF control.is_baseline
              THEN LET b == Inc(Inc(d1, "baseline"), "applicable")
                   IN  IF has
                       THEN IncStatus(b, eval_obj.status, "baseline_fully",
                                      "baseline_partial", "baseline_low", "")
                       ELSE b
              ELSE IF has /\ is_implicitly_applicable(eval_obj)
              THEN IncStatus(Inc(Inc(d1, "additional_applicable"),
                                 "applicable"),
                             eval_obj.status, "additional_fully",
                             "additional_partial", "additional_low", "")
              ELSE d1
    IN  IF ~has \/ eval_obj.status = NOT_EVALUATED
        THEN Inc(d2, "not_evaluated")
        ELSE IncStatus(d2, eval_obj.status, "fully", "partial", "low",
                       "not_applied")

\* Lines 158-222: the second loop, domain_data keyed by domain_code.
RECURSIVE DomainLoop(_, _, _)
DomainLoop(cs, eval_map, domain_data) ==
    IF cs = <<>> THEN domain_data
    ELSE LET dc == Head(cs).domain_code
             old == IF dc \in DOMAIN domain_data THEN domain_data[dc]
                    ELSE ZeroDomain
             new == DomainEntryStep(Head(cs), eval_map, old)
         IN  DomainLoop(Tail(cs), eval_map,
                 [x \in DOMAIN domain_data \cup {dc} |->
                     IF x = dc THEN new ELSE domain_data[x]])

\* A slip: the denominator is the tier target alone.
EffectiveTotal_target_only(baseline, additional_applicable, target) ==
    baseline + target

\* Lines 227-228 and 267: baseline + max(applicable additional, target).
EffectiveTotal(baseline, additional_applicable, target) ==
    baseline + Max2(additional_applicable, target)

\* Lines 225-254: one DomainScoreResponse.
DomainScore(data, additional_multiplier) ==
    LET effective_total ==
            EffectiveTotal(data.baseline, data.additional_applicable,
                           additional_multiplier)
        score == calculate_score(data.fully, data.partial, data.low,
                                 effective_total)
    IN  [total_controls |-> data.total,
         baseline_controls |-> data.baseline,
         applicable_controls |-> data.applicable,
         fully_applied |-> data.fully,
         partially_applied |-> data.partial,
         low_applied |-> data.low,
         not_applied |-> data.not_applied,
         not_evaluated |-> data.not_evaluated,
         additional_applicable |-> data.additional_applicable,
         additional_control_target |-> additional_multiplier,
         effective_total |-> effective_total,
         score |-> score,
         status |-> get_status_color(score)]

\* The keys of domain_data in insertion order: the domain codes of the
\* catalog by first appearance.
RECURSIVE DomainOrder(_, _)
DomainOrder(cs, seen) ==
    IF cs = <<>> THEN seen
    ELSE DomainOrder(Tail(cs),
             IF Head(cs).domain_code \in Range(seen) THEN seen
             ELSE Append(seen, Head(cs).domain_code))

\* d put behind the last entry of sorted whose score is not above d's.
InsertByScore(sorted, d) ==
    LET k == Cardinality({j \in DOMAIN sorted : sorted[j].score <= d.score})
    IN  SubSeq(sorted, 1, k) \o <<d>> \o SubSeq(sorted, k + 1, Len(sorted))

RECURSIVE InsertAllByScore(_, _)
InsertAllByScore(seq, sorted) ==
    IF seq = <<>> THEN sorted
    ELSE InsertAllByScore(Tail(seq), InsertByScore(sorted, Head(seq)))

\* A slip: the list is left in insertion order.
SortByScore_unsorted(seq) == seq

\* Line 257: domain_scores.sort(key=lambda x: x.score), a stable sort.
SortByScore(seq) == InsertAllByScore(seq, <<>>)

\* critical_domains[:5]
CriticalShown == 5

\* Lines 256-258 and 303-310: the red domains by ascending score, and the
\* entries of the response for the first five of them.
CriticalDomains(domain_scores, order) ==
    LET listed == [k \in DOMAIN order |->
                      [domain_code |-> order[k],
                       score |-> domain_scores[order[k]].score,
                       status |-> domain_scores[order[k]].status]]
    IN  SelectSeq(SortByScore(listed), LAMBDA d : d.status = "red")

FirstCritical(critical) ==
    LET shown == SubSeq(critical, 1,
                        IF Len(critical) < CriticalShown THEN Len(critical)
                        ELSE CriticalShown)
    IN  [k \in DOMAIN shown |->
            [domain_code |-> shown[k].domain_code, score |-> shown[k].score]]

\* get_dashboard_overview for a user of org, with eval_map one of the dicts
\* the evaluations query can give.  domain_scores is keyed by domain_code.
get_dashboard_overview(org, eval_map) ==
    LET tier == DashboardTier(org)
        domain_count == Cardinality({c.domain_code : c \in Range(controls)})
        additional_req_target == domain_count * tier.additional_multiplier
        baseline_count ==
            Len(SelectSeq(controls, LAMBDA c : c.is_baseline))
        acc == OverallLoop(controls, eval_map, ZeroOverall(baseline_count))
        domain_data == DomainLoop(controls, eval_map,
                                  [x \in {} |-> ZeroDomain])
        overall_effective_total ==
            EffectiveTotal(baseline_count, acc.additional_applicable,
                           additional_req_target)
        domain_scores ==
            [dc \in DOMAIN domain_data |->
                DomainScore(domain_data[dc], tier.additional_multiplier)]
        critical_domains ==
            CriticalDomains(domain_scores, DomainOrder(controls, <<>>))
    IN  [overall_score |->
             calculate_score(acc.fully_applied, acc.partially_applied,
                             acc.low_applied, overall_effective_total),
         baseline_score |->
             calculate_score(acc.baseline_fully, acc.baseline_partial,
                             acc.baseline_low, baseline_count),
         overall_effective_total |-> overall_effective_total,
         bia_level |-> tier.bia_level,
         is_bia_assessed |-> tier.is_assessed,
         additional_applicable_controls |-> acc.additional_applicable,
         additional_controls_required |-> additional_req_target,
         total_controls |-> Len(controls),
         baseline_controls |-> baseline_count,
         applicable_controls |-> acc.applicable_count,
         evaluated_controls |-> acc.evaluated,
         fully_applied |-> acc.fully_applied,
         partially_applied |-> acc.partially_applied,
         low_applied |-> acc.low_applied,
         not_applied |-> acc.not_applied,
         controls_with_evidence |-> acc.controls_with_evidence,
         evidence_coverage_percent |->
             IF acc.evaluated > 0
             THEN RoundHalfEven(acc.controls_with_evidence * 1000,
                                acc.evaluated)
             ELSE 0,
         domain_scores |-> domain_scores,
         critical_domains_count |-> Len(critical_domains),
         critical_domains |-> FirstCritical(critical_domains)]

(***************************************************************************)
(* Specification SpecBIA: settings and processes of two organizations      *)
(***************************************************************************)
EmptyData == [f \in {} |-> 0]

DefaultImpact ==
    [reputation |-> 0, external |-> 0, internal |-> 0, legal |-> 0,
     economic |-> 0]

ImpactInputs ==
    {DefaultImpact,
     [reputation |-> 4, external |-> 4, internal |-> 4, legal |-> 4,
      economic |-> 4],
     [reputation |-> 1, external |-> 0, internal |-> 3, legal |-> 2,
      economic |-> 4]}

ProcessUpdateInputs ==
    {[values |-> [legal |-> 3], nulls |-> {}],
     [values |-> [reputation |-> 2, economic |-> 1], nulls |-> {}],
     [values |-> EmptyData, nulls |-> {"legal"}]}

SettingsUpdateInputs ==
    {[legal |-> 1], [legal |-> 4], [reputation |-> 1, economic |-> 4]}

InitBIA ==
    /\ EmptyDb(CatalogSmall)
    /\ args = <<>>
    /\ result = <<>>

NextBIA ==
    \E org \in Orgs :
        \/ get_settings(org)
        \/ list_processes(org)
        \/ \E data \in SettingsUpdateInputs : update_settings(org, data)
        \/ \E impact \in ImpactInputs : create_process(org, impact)
        \/ \E id \in 1..MaxProcs, data \in ProcessUpdateInputs :
              update_process(org, id, data)
        \/ \E id \in 1..MaxProcs : delete_process(org, id)

SpecBIA == InitBIA /\ [][NextBIA]_vars

\* C7: every persisted criticality_score equals the scoring formula,
\* floor(1.25 * sum of impact * weight) capped at 100, applied to the
\* process's current impact ratings and its own organization's current
\* weights (so a weight change leaves no stale score, and touches the
\* scores of no other organization).
C7_NoStaleScores ==
    \A p \in processes :
        \E s \in settings :
            /\ s.organization_id = p.organization_id
            /\ LET sum == p.impact.reputation * s.weight.reputation
                          + p.impact.external * s.weight.external
                          + p.impact.internal * s.weight.internal
                          + p.impact.legal * s.weight.legal
                          + p.impact.economic * s.weight.economic
                   floor == (5 * sum) \div 4
               IN  p.criticality_score = IF floor > 100 THEN 100 ELSE floor

\* weight_legal was changed from 4 to 1 while a process with a legal impact
\* existed, and its score follows; the other organization has a process too.
C7_Witness ==
    \E p, q \in processes, s \in settings :
        /\ s.organization_id = p.organization_id
        /\ s.weight.legal = 1
        /\ p.impact.legal = 2
        /\ p.criticality_score = 23
        /\ q.organization_id # p.organization_id
        /\ q.impact.legal = 4
        /\ q.criticality_score = 70

(***************************************************************************)
(* Specification SpecAsset: processes and assets of two organizations      *)
(***************************************************************************)
RatingInputs ==
    {[c |-> 0, i |-> 0, a |-> 0], [c |-> 2, i |-> 1, a |-> 0],
     [c |-> 4, i |-> 0, a |-> 0], [c |-> 1, i |-> 3, a |-> 2]}

AssetUpdateInputs ==
    {[values |-> [c |-> 0], nulls |-> {}],
     [values |-> [i |-> 2], nulls |-> {}],
     [values |-> [c |-> 3, a |-> 1], nulls |-> {}],
     [values |-> EmptyData, nulls |-> {"a"}]}

InitAsset ==
    /\ EmptyDb(CatalogSmall)
    /\ args = <<>>
    /\ result = <<>>

NextAsset ==
    \E org \in Orgs :
        \/ create_process(org, DefaultImpact)
        \/ \E id \in 1..MaxProcs : delete_process(org, id)
        \/ \E id \in 1..MaxProcs, rating \in RatingInputs :
              create_asset(org, id, rating)
        \/ \E id \in 1..MaxAssets, data \in AssetUpdateInputs :
              update_asset(org, id, data)
        \/ \E id \in 1..MaxAssets : delete_asset(org, id)

SpecAsset == InitAsset /\ [][NextAsset]_vars

AssetsOf(org) == {x \in Range(assets) : x.organization_id = org}

\* C8: every persisted asset's security_level is the classification of its
\* current ratings: High when some rating is at least 3, Medium when none
\* is but some rating is 2, Low otherwise.
C8_LevelPersisted ==
    \A x \in Range(assets) :
        LET r == x.rating
        IN  x.security_level =
                IF r.c >= 3 \/ r.i >= 3 \/ r.a >= 3 THEN "High"
                ELSE IF r.c = 2 \/ r.i = 2 \/ r.a = 2 THEN "Medium"
                ELSE "Low"

\* An asset created as (0,0,0), Low, then raised by a partial update of
\* i_rating alone: no create input has these ratings.
C8_Witness ==
    \E x \in Range(assets) :
        /\ x.rating = [c |-> 0, i |-> 2, a |-> 0]
        /\ x.security_level = "Medium"

\* C9: the tier is High if some asset of the organization is High, else
\* Medium if some is Medium, else Low, with multiplier 2, 1, 0; it is a
\* function of the set of the organization's own asset levels.
C9_TierRule ==
    \A org \in Orgs :
        LET levels == {x.security_level : x \in AssetsOf(org)}
            tier == IF "High" \in levels THEN "High"
                    ELSE IF "Medium" \in levels THEN "Medium"
                    ELSE "Low"
            mult == IF tier = "High" THEN 2 ELSE IF tier = "Medium" THEN 1 ELSE 0
        IN  /\ DashboardTier(org).bia_level = tier
            /\ DashboardTier(org).additional_multiplier = mult
            /\ get_compliance_level(org).level = tier

\* An organization whose first stored asset is Low and second is High, next
\* to nothing of the other organization: tier High, multiplier 2.
C9_Witness ==
    /\ Len(assets) = 2
    /\ assets[1].organization_id = assets[2].organization_id
    /\ assets[1].security_level = "Low"
    /\ assets[2].security_level = "High"
    /\ DashboardTier(assets[1].organization_id).additional_multiplier = 2

\* C10: is_assessed is true exactly when the organization has a BIAProcess,
\* and an organization without processes resolves to Low, multiplier 0,
\* is_assessed false.
C10_Unassessed ==
    \A org \in Orgs :
        LET has_process == \E p \in processes : p.organization_id = org
        IN  /\ DashboardTier(org).is_assessed = has_process
            /\ get_compliance_level(org).is_assessed = has_process
            /\ ~has_process =>
                  /\ DashboardTier(org).bia_level = "Low"
                  /\ DashboardTier(org).additional_multiplier = 0
                  /\ get_compliance_level(org).level = "Low"

\* An organization whose only process was deleted (its settings row stays)
\* while the other organization holds a High asset.
C10_Witness ==
    \E org \in Orgs :
        /\ FindSettings(org) # {}
        /\ ~\E p \in processes : p.organization_id = org
        /\ DashboardTier(org).is_assessed = FALSE
        /\ \E x \in Range(assets) :
              x.organization_id # org /\ x.security_level = "High"

(***************************************************************************)
(* Specification SpecEval: the three get-or-create handlers and            *)
(* delete_evidence, called one request at a time by users of two           *)
(* organizations                                                           *)
(***************************************************************************)
IsApplicableInputs == {None, "True", "False"}

ContentTypeInputs == {"application/pdf", "text/plain"}

InitEval ==
    /\ EmptyDb(CatalogSmall)
    /\ args = <<>>
    /\ result = <<>>

NextEval ==
    \E org \in Orgs, code \in ControlCodes :
        \/ \E status \in EvaluationStatus, ia \in IsApplicableInputs :
              update_evaluation(org, code, status, ia)
        \/ \E ct \in ContentTypeInputs : upload_evidence(org, code, ct)
        \/ \E id \in 1..MaxEvidence : delete_evidence(org, id)
        \/ add_comment(org, code)

SpecEval == InitEval /\ [][NextEval]_vars

\* C6: there is at most one Evaluation per (organization_id, control_id).
C6_OneEvaluationPerPair ==
    \A e1, e2 \in evaluations :
        (e1.organization_id = e2.organization_id /\ e1.control_id = e2.control_id)
            => e1 = e2

\* Each of the three handlers has acted on the same pair: the row created by
\* the first was reused by the two others.
C6_Witness ==
    \E e \in evaluations :
        /\ e.status = FULLY_APPLIED
        /\ \E v \in evidence : v.evaluation_id = e.id
        /\ \E c \in comments : c.evaluation_id = e.id

(***************************************************************************)
(* Specification SpecDash: the dashboard of one organization, for two      *)
(* catalogs and the three tiers, under update_evaluation, upload_evidence, *)
(* delete_evidence and add_comment                                         *)
(***************************************************************************)
DashOrg == "orgA"

\* BIA data the organization can have recorded before its controls are
\* evaluated: nothing (tier Low, not assessed), or one process with one
\* asset created with a rating of RatingInputs.
AssessedWith(rating) ==
    [settings |-> {DefaultSettings(DashOrg)},
     processes |-> {[id |-> 1, organization_id |-> DashOrg,
                     impact |-> DefaultImpact, criticality_score |-> 0]},
     assets |-> <<[id |-> 1, organization_id |-> DashOrg, process_id |-> 1,
                   rating |-> rating,
                   security_level |-> calculate_security_level(rating)]>>]

DashBIAStates ==
    {[settings |-> {}, processes |-> {}, assets |-> <<>>],
     AssessedWith([c |-> 2, i |-> 1, a |-> 0]),
     AssessedWith([c |-> 4, i |-> 0, a |-> 0])}

InitDash ==
    /\ controls \in {CatalogTwoDomains, CatalogOneDomain}
    /\ evaluations = {}
    /\ evidence = {}
    /\ comments = {}
    /\ history = [o \in Orgs |-> 0]
    /\ \E bia \in DashBIAStates :
          /\ settings = bia.settings
          /\ processes = bia.processes
          /\ assets = bia.assets
    /\ args = <<>>
    /\ result = <<>>

NextDash ==
    \E code \in ControlCodes :
        \/ \E status \in EvaluationStatus, ia \in IsApplicableInputs :
              update_evaluation(DashOrg, code, status, ia)
        \/ \E ct \in ContentTypeInputs : upload_evidence(DashOrg, code, ct)
        \/ \E id \in 1..MaxEvidence : delete_evidence(DashOrg, id)
        \/ add_comment(DashOrg, code)

SpecDash == InitDash /\ [][NextDash]_vars

\* The status a control has in eval_map; a control without a row is not
\* evaluated.
StatusIn(eval_map, c) ==
    IF c.id \in DOMAIN eval_map THEN eval_map[c.id].status ELSE NOT_EVALUATED

\* The applicability rule of the specification for an additional control.
ApplicableIn(eval_map, c) ==
    /\ ~c.is_baseline
    /\ c.id \in DOMAIN eval_map
    /\ \/ eval_map[c.id].is_applicable = "True"
       \/ eval_map[c.id].status \in
              {FULLY_APPLIED, PARTIALLY_APPLIED, LOW_APPLIED}

\* Number of controls of cs with the given status in eval_map.
CountStatus(eval_map, cs, status) ==
    Cardinality({c \in cs : StatusIn(eval_map, c) = status})

ControlsOfDomain(dc) == {c \in Range(controls) : c.domain_code = dc}

\* C2: a non-baseline control is counted in additional_applicable_controls
\* and in its domain's additional_applicable exactly when its Evaluation has
\* is_applicable = true or an applied status.
C2_ApplicableCounted ==
    \A m \in EvalMaps(DashOrg) :
        LET r == get_dashboard_overview(DashOrg, m)
        IN  /\ r.additional_applicable_controls =
                  Cardinality({c \in Range(controls) : ApplicableIn(m, c)})
            /\ \A dc \in DOMAIN r.domain_scores :
                  r.domain_scores[dc].additional_applicable =
                      Cardinality({c \in ControlsOfDomain(dc) :
                                      ApplicableIn(m, c)})

\* C3: every domain is scored as calculate_score(fully, partial, low,
\* baseline in the domain + max(applicable additional in the domain, tier
\* multiplier)) with the status colour of that score; two baseline controls
\* fully applied, one additional fully applied, one additional not
\* evaluated and multiplier 1 give effective total 3, 100.0, green.
C3_DomainScore ==
    \A m \in EvalMaps(DashOrg) :
        LET r == get_dashboard_overview(DashOrg, m)
            mult == DashboardTier(DashOrg).additional_multiplier
        IN  /\ DOMAIN r.domain_scores =
                  {c.domain_code : c \in Range(controls)}
            /\ \A dc \in DOMAIN r.domain_scores :
                  LET cs == ControlsOfDomain(dc)
                      base == Cardinality({c \in cs : c.is_baseline})
                      appl == Cardinality({c \in cs : ApplicableIn(m, c)})
                      total == base + (IF appl >= mult THEN appl ELSE mult)
                      expected ==
                          calculate_score(CountStatus(m, cs, FULLY_APPLIED),
                                          CountStatus(m, cs, PARTIALLY_APPLIED),
                                          CountStatus(m, cs, LOW_APPLIED),
                                          total)
                  IN  /\ r.domain_scores[dc].score = expected
                      /\ r.domain_scores[dc].status =
                            (IF expected >= 800 THEN "green"
                             ELSE IF expected >= 500 THEN "amber" ELSE "red")
                      /\ ( /\ mult = 1
                           /\ Cardinality(cs) = 4
                           /\ base = 2
                           /\ \A c \in cs :
                                 c.is_baseline => StatusIn(m, c) = FULLY_APPLIED
                           /\ appl = 1
                           /\ \E c \in cs : /\ ApplicableIn(m, c)
                                            /\ StatusIn(m, c) = FULLY_APPLIED
                           /\ \E c \in cs : /\ ~c.is_baseline
                                            /\ StatusIn(m, c) = NOT_EVALUATED )
                         => /\ total = 3
                            /\ r.domain_scores[dc].score = 1000
                            /\ r.domain_scores[dc].status = "green"

\* The scenario of the specification: tier Medium, both baseline controls
\* and one additional control fully applied (its flag never set by hand),
\* the other additional control without evaluation.
C3_Witness ==
    /\ controls = CatalogOneDomain
    /\ DashboardTier(DashOrg).additional_multiplier = 1
    /\ {e.control_id : e \in evaluations} = {1, 2, 3}
    /\ \A e \in evaluations : e.status = FULLY_APPLIED
    /\ \A m \in EvalMaps(DashOrg) :
          get_dashboard_overview(DashOrg, m).domain_scores["AM"].score = 1000

\* C4: overall_score is calculate_score(fully, partial, low, baseline_count
\* + max(number of applicable additional controls, domain_count * tier
\* multiplier)).
C4_OverallScore ==
    \A m \in EvalMaps(DashOrg) :
        LET r == get_dashboard_overview(DashOrg, m)
            cs == Range(controls)
            mult == DashboardTier(DashOrg).additional_multiplier
            domain_count == Cardinality({c.domain_code : c \in cs})
            base == Cardinality({c \in cs : c.is_baseline})
            appl == Cardinality({c \in cs : ApplicableIn(m, c)})
            target == domain_count * mult
            total == base + (IF appl >= target THEN appl ELSE target)
        IN  r.overall_score =
                calculate_score(CountStatus(m, cs, FULLY_APPLIED),
                                CountStatus(m, cs, PARTIALLY_APPLIED),
                                CountStatus(m, cs, LOW_APPLIED),
                                total)

\* C5: every domain score, overall_score and baseline_score whose
\* denominator is positive lies between 0.0 and 100.0.
C5_ScoresInRange ==
    \A m \in EvalMaps(DashOrg) :
        LET r == get_dashboard_overview(DashOrg, m)
        IN  /\ r.overall_score \in 0..1000
            /\ r.baseline_score \in 0..1000
            /\ \A dc \in DOMAIN r.domain_scores :
                  r.domain_scores[dc].score \in 0..1000

\* At tier Low an additional control was fully applied with is_applicable
\* sent as false, next to a fully applied baseline control: two credits over
\* a denominator that had to grow to two.
C5_Witness ==
    /\ DashboardTier(DashOrg).additional_multiplier = 0
    /\ \E e \in evaluations :
          /\ e.control_id = 2
          /\ e.status = FULLY_APPLIED
          /\ e.is_applicable = "False"
    /\ \E e \in evaluations : e.control_id = 1 /\ e.status = FULLY_APPLIED
    /\ controls = CatalogTwoDomains
    /\ \A m \in EvalMaps(DashOrg) :
          /\ get_dashboard_overview(DashOrg, m).domain_scores["AM"].score = 1000
          /\ get_dashboard_overview(DashOrg, m).overall_score = 1000

(***************************************************************************)
(* Specification SpecScore: calculate_score on bounded arguments           *)
(***************************************************************************)
ScoreArgs == (0..MaxCount) \X (0..MaxCount) \X (0..MaxCount) \X (0..MaxTotal)

InitScore ==
    /\ EmptyDb(<<>>)
    /\ args \in ScoreArgs
    /\ result = <<>>

CallCalculateScore ==
    /\ result = <<>>
    /\ Len(args) = 4
    /\ result' = <<calculate_score(args[1], args[2], args[3], args[4])>>
    /\ UNCHANGED <<dbvars, args>>

NextScore == CallCalculateScore

SpecScore == InitScore /\ [][NextScore]_vars

\* C1: for every total > 0 the result is (fully + 0.5*partial + 0.25*low)
\* / total * 100 rounded to one decimal: the nearest tenth, at most half a
\* tenth away from the exact quotient; for total = 0 the result is 0.0.
C1_ScoreFormula ==
    result # <<>> =>
        LET n == (4 * args[1] + 2 * args[2] + args[3]) * 1000
            d == 4 * args[4]
            r == result[1]
        IN  IF args[4] = 0 THEN r = 0
            ELSE /\ 2 * (r * d - n) <= d
                 /\ 2 * (n - r * d) <= d

\* A call with total > 0 whose exact value is not a whole tenth (1/3 of 100).
C1_Witness ==
    /\ result = <<333>>
    /\ args = <<1, 0, 0, 3>>

(***************************************************************************)
(* Specification SpecLevel: calculate_security_level on the rating domains *)
(***************************************************************************)
\* InformationAssetBase: c_rating le=4, i_rating le=3, a_rating le=3, ge=0.
CRatingMax == 4
IRatingMax == 3
ARatingMax == 3

LevelArgs == (0..CRatingMax) \X (0..IRatingMax) \X (0..ARatingMax)

InitLevel ==
    /\ EmptyDb(<<>>)
    /\ args \in LevelArgs
    /\ result = <<>>

CallCalculateSecurityLevel ==
    /\ result = <<>>
    /\ Len(args) = 3
    /\ result' = <<calculate_security_level(
                       [c |-> args[1], i |-> args[2], a |-> args[3]])>>
    /\ UNCHANGED <<dbvars, args>>

NextLevel == CallCalculateSecurityLevel

SpecLevel == InitLevel /\ [][NextLevel]_vars

\* The six orders of three ratings.
Permutations3 ==
    {p \in [1..3 -> 1..3] : \A j, k \in 1..3 : p[j] = p[k] => j = k}

\* C11: on the declared domains (c in 0..4, i and a in 0..3) the level is
\* High when some rating is at least 3, Medium when the largest rating is
\* exactly 2, Low otherwise; every call returns one of the three levels, and
\* the level is the same for the three ratings taken in any order.
C11_SecurityLevel ==
    result # <<>> =>
        LET r == result[1]
            some_high == \E k \in 1..3 : args[k] >= 3
            some_two == \E k \in 1..3 : args[k] = 2
        IN  /\ r \in {"High", "Medium", "Low"}
            /\ (r = "High") = some_high
            /\ (r = "Medium") = (~some_high /\ some_two)
            /\ (r = "Low") = (~some_high /\ ~some_two)
            /\ \A p \in Permutations3 :
                  calculate_security_level(
                      [c |-> args[p[1]], i |-> args[p[2]], a |-> args[p[3]]]) = r

\* The largest rating is the availability rating alone, and it is exactly 2.
C11_Witness ==
    /\ args = <<1, 0, 2>>
    /\ result = <<"Medium">>

(***************************************************************************)
(* Specification SpecCriticality: calculate_criticality on validated input *)
(***************************************************************************)
\* BIAProcessBase: impact_* ge=0, le=4; OrganizationSettingsBase: weight_*
\* ge=1, le=4.
ImpactMax == 4
WeightMin == 1
WeightMax == 4

\* Two impacts and one weight range over their whole domain, the others
\* over its two ends.
CriticalityImpacts ==
    [reputation : 0..ImpactMax, external : 0..ImpactMax,
     internal : {0, ImpactMax}, legal : {0, ImpactMax},
     economic : {0, ImpactMax}]

CriticalityWeights ==
    [reputation : WeightMin..WeightMax, external : {WeightMin, WeightMax},
     internal : {WeightMin, WeightMax}, legal : {WeightMin, WeightMax},
     economic : {WeightMin, WeightMax}]

InitCriticality ==
    /\ EmptyDb(<<>>)
    /\ args \in CriticalityImpacts \X CriticalityWeights
    /\ result = <<>>

CallCalculateCriticality ==
    /\ result = <<>>
    /\ Len(args) = 2
    /\ result' = <<calculate_criticality(args[1], args[2])>>
    /\ UNCHANGED <<dbvars, args>>

NextCriticality == CallCalculateCriticality

SpecCriticality == InitCriticality /\ [][NextCriticality]_vars

\* The sum of impact times weight over the five categories, term by term.
SumOfProducts(impact, weight) ==
    LET term(f) == impact[f] * weight[f]
    IN  term("reputation") + term("external") + term("internal")
            + term("legal") + term("economic")

\* C12: for impacts in 0..4 and weights in 1..4 the score is the floor of
\* 1.25 times the sum of impact times weight, that is the largest integer r
\* with 4 r <= 5 sum, and it lies between 0 and 100.
C12_Criticality ==
    result # <<>> =>
        LET sum == SumOfProducts(args[1], args[2])
            r == result[1]
        IN  /\ 4 * r <= 5 * sum
            /\ 5 * sum < 4 * (r + 1)
            /\ r \in 0..100

\* A sum whose 1.25-fold is not whole and lies above the half: 1.25 * 3.
C12_Witness ==
    /\ result = <<3>>
    /\ args[1].reputation = 3
    /\ args[2].reputation = 1
    /\ args[1].external = 0

CategoryNames == {"reputation", "external", "internal", "legal", "economic"}

\* C13: the score is 100 only when all five impacts are 4 and all five
\* weights are 4, so the cap at 100 never cuts a larger product; and the
\* score is 0 whenever all five impacts are 0, whatever the weights.
C13_Extremes ==
    result # <<>> =>
        /\ result[1] = 100 =>
              /\ \A f \in CategoryNames :
                    args[1][f] = ImpactMax /\ args[2][f] = WeightMax
              /\ 5 * SumOfProducts(args[1], args[2]) = 4 * 100
        /\ (\A f \in CategoryNames : args[1][f] = 0) => result[1] = 0

\* The one input that scores 100.
C13_Witness ==
    /\ result = <<100>>
    /\ \A f \in CategoryNames : args[1][f] = ImpactMax /\ args[2][f] = WeightMax

\* All impacts 0 under the largest weights.
C13_WitnessZero ==
    /\ result = <<0>>
    /\ \A f \in CategoryNames : args[1][f] = 0 /\ args[2][f] = WeightMax

\* The controls whose row in eval_map owns at least one Evidence record.
ControlsOwningEvidence(eval_map) ==
    {c \in Range(controls) :
        /\ c.id \in DOMAIN eval_map
        /\ \E v \in evidence : v.evaluation_id = eval_map[c.id].id}

\* The controls whose status is other than not_evaluated.
EvaluatedControls(eval_map) ==
    {c \in Range(controls) : StatusIn(eval_map, c) # NOT_EVALUATED}

\* percent is with / of * 100 rounded to one decimal (0.0 when of = 0): the
\* tenth nearest to the exact quotient.
IsCoverage(percent, with, of) ==
    IF of = 0 THEN percent = 0
    ELSE /\ 2 * (percent * of - with * 1000) <= of
         /\ 2 * (with * 1000 - percent * of) <= of

\* C14 as stated: evidence_coverage_percent is controls_with_evidence /
\* evaluated_controls * 100 rounded to one decimal (0.0 when no control is
\* evaluated), controls_with_evidence being the number of controls whose
\* Evaluation owns at least one Evidence record and evaluated_controls the
\* number of controls whose status is other than not_evaluated.
C14_CoverageAsStated ==
    \A m \in EvalMaps(DashOrg) :
        LET r == get_dashboard_overview(DashOrg, m)
        IN  IsCoverage(r.evidence_coverage_percent,
                       Cardinality(ControlsOwningEvidence(m)),
                       Cardinality(EvaluatedControls(m)))

\* C14 amended: controls_with_evidence is the number of controls whose
\* status is other than not_evaluated and whose Evaluation owns at least one
\* Evidence record; evidence_coverage_percent is that number over
\* evaluated_controls times 100, rounded to one decimal, and 0.0 when no
\* control is evaluated.
C14_Coverage ==
    \A m \in EvalMaps(DashOrg) :
        LET r == get_dashboard_overview(DashOrg, m)
            with == ControlsOwningEvidence(m) \cap EvaluatedControls(m)
        IN  /\ r.controls_with_evidence = Cardinality(with)
            /\ r.evaluated_controls = Cardinality(EvaluatedControls(m))
            /\ IsCoverage(r.evidence_coverage_percent, Cardinality(with),
                          Cardinality(EvaluatedControls(m)))

\* Two controls are evaluated and one of them owns evidence: half coverage.
C14_Witness ==
    \E m \in EvalMaps(DashOrg) :
        /\ Cardinality(EvaluatedControls(m)) = 2
        /\ Cardinality(ControlsOwningEvidence(m) \cap EvaluatedControls(m)) = 1
        /\ get_dashboard_overview(DashOrg, m).evidence_coverage_percent = 500

(***************************************************************************)
(* Specification SpecCritical: the domain list of one organization over a  *)
(* catalog of six domains, under update_evaluation                         *)
(***************************************************************************)
\* Six domains stored out of code order; the first has two baseline
\* controls, the others one.
CatalogSixDomains ==
    <<Control(1, "IM-1", "IM", TRUE), Control(2, "IM-2", "IM", TRUE),
      Control(3, "AM-1", "AM", TRUE), Control(4, "TP-1", "TP", TRUE),
      Control(5, "CM-1", "CM", TRUE), Control(6, "RM-1", "RM", TRUE),
      Control(7, "SA-1", "SA", TRUE)>>

CriticalCodes == {c.control_code : c \in Range(CatalogSixDomains)}

InitCritical ==
    /\ EmptyDb(CatalogSixDomains)
    /\ args = <<>>
    /\ result = <<>>

NextCritical ==
    \E code \in CriticalCodes, status \in EvaluationStatus :
        update_evaluation(DashOrg, code, status, None)

SpecCritical == InitCritical /\ [][NextCritical]_vars

\* The domains of the response whose status is red.
RedDomains(r) ==
    {dc \in DOMAIN r.domain_scores : r.domain_scores[dc].status = "red"}

\* C15: a domain is green when its score is at least 80, amber when it is
\* at least 50 and below 80, red otherwise (and so is every score from 0.0
\* to 100.0); critical_domains_count is the number of red domains; the
\* critical_domains list holds min(5, that number) entries, which are red
\* domains with their scores, in ascending order of score, no red domain
\* left out scoring below a listed one.
C15_CriticalDomains ==
    /\ \A s \in 0..1000 :
          /\ (get_status_color(s) = "green") = (s >= 800)
          /\ (get_status_color(s) = "amber") = (s >= 500 /\ s < 800)
          /\ (get_status_color(s) = "red") = (s < 500)
    /\ \A m \in EvalMaps(DashOrg) :
          LET r == get_dashboard_overview(DashOrg, m)
              list == r.critical_domains
              red == RedDomains(r)
          IN  /\ \A dc \in DOMAIN r.domain_scores :
                    r.domain_scores[dc].status =
                        (IF r.domain_scores[dc].score >= 800 THEN "green"
                         ELSE IF r.domain_scores[dc].score >= 500 THEN "amber"
                         ELSE "red")
              /\ r.critical_domains_count = Cardinality(red)
              /\ Len(list) = (IF Cardinality(red) < 5 THEN Cardinality(red)
                              ELSE 5)
              /\ \A k \in DOMAIN list :
                    /\ list[k].domain_code \in red
                    /\ list[k].score = r.domain_scores[list[k].domain_code].score
              /\ \A j, k \in DOMAIN list :
                    j < k => /\ list[j].score <= list[k].score
                             /\ list[j].domain_code # list[k].domain_code
              /\ \A dc \in red :
                    (\A k \in DOMAIN list : list[k].domain_code # dc)
                        => \A k \in DOMAIN list :
                              list[k].score <= r.domain_scores[dc].score

\* Six red domains, the first stored one scoring above the others: five are
\* listed and the one left out is the highest-scoring.
C15_Witness ==
    \E m \in EvalMaps(DashOrg) :
        LET r == get_dashboard_overview(DashOrg, m)
        IN  /\ r.critical_domains_count = 6
            /\ Len(r.critical_domains) = 5
            /\ r.domain_scores["IM"].score = 250
            /\ \A k \in 1..5 : r.critical_domains[k].score = 0

\* One green, one amber and four red domains with two different scores.
C15_WitnessMixed ==
    \E m \in EvalMaps(DashOrg) :
        LET r == get_dashboard_overview(DashOrg, m)
        IN  /\ r.critical_domains_count = 4
            /\ r.domain_scores["AM"].status = "green"
            /\ r.domain_scores["TP"].status = "amber"
            /\ r.critical_domains[4].score = 125

(***************************************************************************)
(* The read handlers of evaluations.py and bia.py, as what they return     *)
(***************************************************************************)
\* list_evaluations without filters: per control the caller's row, if any.
list_evaluations(org) ==
    {e \in evaluations :
        /\ e.organization_id = org
        /\ e.control_id \in {c.id : c \in Range(controls)}}

\* list_evidence: the Evidence of the caller's evaluation of the control.
list_evidence(org, control_code) ==
    {v \in evidence :
        \E control \in ControlsByCode(control_code) :
        \E e \in FindEvaluation(org, control) : v.evaluation_id = e.id}

\* list_comments: the Comments of the caller's evaluation of the control.
list_comments(org, control_code) ==
    {c \in comments :
        \E control \in ControlsByCode(control_code) :
        \E e \in FindEvaluation(org, control) : c.evaluation_id = e.id}

\* The body of list_processes: the caller's processes, each with the assets
\* of its relationship.
ProcessResponses(org) ==
    {[process |-> p,
      assets |-> SelectSeq(assets, LAMBDA x : x.process_id = p.id)] :
        p \in {q \in processes : q.organization_id = org}}

\* The organization an Evidence or Comment row belongs to: that of its
\* evaluation.
OwnerOrgs(row) ==
    {e.organization_id : e \in {x \in evaluations : x.id = row.evaluation_id}}

\* Everything stored for org.
TenantData(org) ==
    [evaluations |-> {e \in evaluations : e.organization_id = org},
     evidence |-> {v \in evidence : org \in OwnerOrgs(v)},
     comments |-> {c \in comments : org \in OwnerOrgs(c)},
     history |-> history[org],
     settings |-> FindSettings(org),
     processes |-> {p \in processes : p.organization_id = org},
     assets |-> SelectSeq(assets, LAMBDA x : x.organization_id = org)]

\* What org is shown of its dashboard and compliance level.
TenantViews(org) ==
    [overview |-> {get_dashboard_overview(org, m) : m \in EvalMaps(org)},
     level |-> get_compliance_level(org)]

(***************************************************************************)
(* Specification SpecTenant: users of two organizations calling the write  *)
(* handlers of evaluations.py and bia.py                                   *)
(***************************************************************************)
TenantStatusInputs == {FULLY_APPLIED}

TenantRating == [c |-> 4, i |-> 0, a |-> 0]

TenantAssetUpdate == [values |-> [c |-> 0], nulls |-> {}]

TenantProcessUpdate == [values |-> [legal |-> 3], nulls |-> {}]

\* What the database can hold when the requests start: nothing, or for
\* orgA an evaluated control (one row of change history), a process and an
\* asset rated High.  args and result keep what orgA held and was shown
\* then.
TenantScenarios ==
    {[evaluations |-> {}, history |-> [o \in Orgs |-> 0], settings |-> {},
      processes |-> {}, assets |-> <<>>],
     [evaluations |->
          {[id |-> <<"orgA", 1, 1>>, organization_id |-> "orgA",
            control_id |-> 1, status |-> FULLY_APPLIED,
            is_applicable |-> "None"]},
      history |-> [o \in Orgs |-> IF o = "orgA" THEN 1 ELSE 0],
      settings |-> {DefaultSettings("orgA")},
      processes |-> {[id |-> 1, organization_id |-> "orgA",
                      impact |-> DefaultImpact, criticality_score |-> 0]},
      assets |-> <<[id |-> 1, organization_id |-> "orgA", process_id |-> 1,
                    rating |-> TenantRating, security_level |-> "High"]>>]}

InitTenant ==
    /\ controls = CatalogSmall
    /\ evidence = {}
    /\ comments = {}
    /\ \E db \in TenantScenarios :
          /\ evaluations = db.evaluations
          /\ history = db.history
          /\ settings = db.settings
          /\ processes = db.processes
          /\ assets = db.assets
    /\ args = <<TenantData(DashOrg)>>
    /\ result = <<TenantViews(DashOrg)>>

\* One request of a user of org.
TenantRequest(org) ==
    \/ \E status \in TenantStatusInputs :
          update_evaluation(org, "AM-1", status, None)
    \/ upload_evidence(org, "AM-1", "application/pdf")
    \/ \E id \in 1..MaxEvidence : delete_evidence(org, id)
    \/ add_comment(org, "AM-1")
    \/ update_settings(org, [legal |-> 1])
    \/ create_process(org, DefaultImpact)
    \/ \E id \in 1..MaxProcs : delete_process(org, id)
    \/ \E id \in 1..MaxProcs : create_asset(org, id, TenantRating)
    \/ \E id \in 1..MaxAssets : delete_asset(org, id)

NextTenant == \E org \in Orgs : TenantRequest(org)

SpecTenant == InitTenant /\ [][NextTenant]_vars

\* Every list or read made for org returns rows of org only, and the
\* download of another organization's evidence is denied.
ReadsScoped ==
    \A org \in Orgs :
        /\ \A e \in list_evaluations(org) : e.organization_id = org
        /\ \A code \in ControlCodes :
              /\ \A v \in list_evidence(org, code) : OwnerOrgs(v) = {org}
              /\ \A c \in list_comments(org, code) : OwnerOrgs(c) = {org}
        /\ \A r \in ProcessResponses(org) :
              /\ r.process.organization_id = org
              /\ \A x \in Range(r.assets) : x.organization_id = org
        /\ \A v \in evidence :
              download_evidence(org, v.id) =
                  (IF org \in OwnerOrgs(v) THEN 200 ELSE 403)

\* A request of org naming a process, asset or evidence of another
\* organization is refused.
ForeignIdsRejected ==
    \A org \in Orgs :
        /\ \A v \in evidence :
              org \notin OwnerOrgs(v) => ~ENABLED delete_evidence(org, v.id)
        /\ \A p \in processes :
              p.organization_id # org =>
                  /\ ~ENABLED delete_process(org, p.id)
                  /\ ~ENABLED update_process(org, p.id, TenantProcessUpdate)
                  /\ ~ENABLED create_asset(org, p.id, TenantRating)
        /\ \A x \in Range(assets) :
              x.organization_id # org =>
                  /\ ~ENABLED delete_asset(org, x.id)
                  /\ ~ENABLED update_asset(org, x.id, TenantAssetUpdate)

\* A request of org leaves the data of every other organization as it was.
OthersUntouched ==
    \A org \in Orgs :
        TenantRequest(org) =>
            \A other \in Orgs \ {org} : TenantData(other)' = TenantData(other)

\* As long as orgA holds what it held at the start, it is shown what it was
\* shown at the start, whatever the users of orgB have done since.
OverviewUnaffected ==
    TenantData(DashOrg) = args[1] => TenantViews(DashOrg) = result[1]

\* C16: no request of a user of one organization reads or changes the
\* evaluations, evidence, comments, processes, assets or settings of
\* another: lists and reads return the caller's rows only, a request naming
\* a process, asset or evidence of another organization is refused (denied
\* or not found) and changes nothing there, and the dashboard overview of an
\* organization is the same whatever the users of the other one do.
C16_TenantIsolation ==
    /\ [](ReadsScoped /\ ForeignIdsRejected /\ OverviewUnaffected)
    /\ [][OthersUntouched]_vars

\* Both organizations hold an evaluation with evidence or a comment, a
\* process and an asset, and ids of the other are there to be named.
C16_Witness ==
    /\ \A org \in Orgs :
          /\ TenantData(org).evaluations # {}
          /\ TenantData(org).processes # {}
          /\ TenantData(org).assets # <<>>
    /\ \E v \in evidence : OwnerOrgs(v) = {"orgB"}
    /\ \E c \in comments : OwnerOrgs(c) = {"orgA"}

(***************************************************************************)
(* dashboard.py: get_public_stats                                          *)
(***************************************************************************)
\* Python round(n / d, 1) in tenths where n / d is the quotient of a sum of
\* one-decimal floats: the nearest tenth; when the exact quotient lies
\* midway between two tenths the double nearest to it decides, so either
\* neighbour can come out (up tells which).
RoundNearest(n, d, up) ==
    LET q == n \div d
        r == n % d
    IN  IF 2 * r > d \/ (2 * r = d /\ up) THEN q + 1 ELSE q

\* db.query(Evaluation).filter(Evaluation.organization_id == org.id).all()
OrgEvaluations(org) == {e \in evaluations : e.organization_id = org}

\* organizations = db.query(Organization).all(), less those the loop skips
\* with "if not evaluations: continue".
ScoredOrgs == {org \in Orgs : OrgEvaluations(org) # {}}

\* baseline_ids = [c.id for c in baseline_controls]
baseline_ids == {c.id : c \in {x \in Range(controls) : x.is_baseline}}

\* Lines 395-401: baseline_fully == baseline_count and baseline_count > 0.
HasFullBaseline(eval_map) ==
    /\ baseline_ids # {}
    /\ \A cid \in baseline_ids :
          /\ cid \in DOMAIN eval_map
          /\ eval_map[cid].status = FULLY_APPLIED

\* Lines 404-407: any(e.is_applicable and e.control_id not in baseline_ids).
has_additional(org) ==
    \E e \in OrgEvaluations(org) :
        e.is_applicable = "True" /\ e.control_id \notin baseline_ids

\* Lines 412-415: org_score, over the organization's Evaluation rows.
org_score(org) ==
    LET rows == OrgEvaluations(org)
        count(status) == Cardinality({e \in rows : e.status = status})
    IN  calculate_score(count(FULLY_APPLIED), count(PARTIALLY_APPLIED),
                        count(LOW_APPLIED), Cardinality(rows))

\* total_score += org_score over the organizations not skipped, in tenths.
RECURSIVE total_score(_)
total_score(orgs) ==
    IF orgs = {} THEN 0
    ELSE LET org == CHOOSE o \in orgs : TRUE
         IN  org_score(org) + total_score(orgs \ {org})

\* Lines 419-435: the (organization, control) pairs of a domain that have a
\* row in the organization's eval_map, all or those of one status.
DomainPairs(maps, dc) ==
    {<<org, c>> \in ScoredOrgs \X Range(controls) :
        c.domain_code = dc /\ c.id \in DOMAIN maps[org]}

DomainPairsWith(maps, dc, status) ==
    {p \in DomainPairs(maps, dc) : maps[p[1]][p[2].id].status = status}

domain_scores_count(maps, dc) == Cardinality(DomainPairs(maps, dc))

domain_scores_sum(maps, dc) ==
    100 * Cardinality(DomainPairsWith(maps, dc, FULLY_APPLIED))
        + 50 * Cardinality(DomainPairsWith(maps, dc, PARTIALLY_APPLIED))
        + 25 * Cardinality(DomainPairsWith(maps, dc, LOW_APPLIED))

\* The eval_map dicts of the loop, one per organization.
PublicEvalMaps ==
    {maps \in [Orgs -> UNION {EvalMaps(org) : org \in Orgs}] :
        \A org \in Orgs : maps[org] \in EvalMaps(org)}

\* get_public_stats; scores and percentages in tenths.
get_public_stats(maps, up) ==
    LET total_orgs == Cardinality(Orgs)
        total_evaluations == Cardinality(evaluations)
        evals_with_evidence ==
            Cardinality({e \in evaluations : HasEvidence(e)})
    IN  IF total_orgs = 0
        THEN [total_organizations |-> 0,
              organizations_with_full_baseline |-> 0,
              organizations_with_additional_controls |-> 0,
              total_evaluations |-> 0,
              platform_evidence_coverage |-> 0,
              average_compliance_score |-> 0,
              domain_average_scores |-> [dc \in {} |-> 0]]
        ELSE [total_organizations |-> total_orgs,
              organizations_with_full_baseline |->
                  Cardinality({org \in ScoredOrgs : HasFullBaseline(maps[org])}),
              organizations_with_additional_controls |->
                  Cardinality({org \in ScoredOrgs : has_additional(org)}),
              total_evaluations |-> total_evaluations,
              platform_evidence_coverage |->
                  IF total_evaluations > 0
                  THEN RoundHalfEven(evals_with_evidence * 1000,
                                     total_evaluations)
                  ELSE 0,
              average_compliance_score |->
                  RoundNearest(total_score(ScoredOrgs), total_orgs, up),
              domain_average_scores |->
                  [dc \in {c.domain_code : c \in Range(controls)} |->
                      IF domain_scores_count(maps, dc) > 0
                      THEN RoundHalfEven(domain_scores_sum(maps, dc) * 10,
                                         domain_scores_count(maps, dc))
                      ELSE 0]]

\* C17: for every organization with at least one evaluation, the score
\* get_public_stats adds into the platform total for it equals the
\* overall_score get_dashboard_overview computes for the same organization.
C17_SameScore ==
    \A org \in ScoredOrgs :
        \A m \in EvalMaps(org) :
            org_score(org) = get_dashboard_overview(org, m).overall_score

\* The sum of f over the set S, f a function.
RECURSIVE SumFn(_, _)
SumFn(f, S) ==
    IF S = {} THEN 0
    ELSE LET x == CHOOSE y \in S : TRUE
         IN  f[x] + SumFn(f, S \ {x})

\* The product of f over the set S.
RECURSIVE ProductFn(_, _)
ProductFn(f, S) ==
    IF S = {} THEN 1
    ELSE LET x == CHOOSE y \in S : TRUE
         IN  f[x] * ProductFn(f, S \ {x})

\* C18: average_compliance_score is the simple mean, rounded to one
\* decimal, of the per-organization scores of the organizations that were
\* scored; an organization with zero evaluations adds neither a score nor a
\* unit to the divisor.
C18_MeanOfScored ==
    \A maps \in PublicEvalMaps, up \in BOOLEAN :
        LET r == get_public_stats(maps, up)
            scored == Cardinality(ScoredOrgs)
            sum == SumFn([org \in Orgs |-> org_score(org)], ScoredOrgs)
        IN  IF scored = 0 THEN r.average_compliance_score = 0
            ELSE /\ 2 * (r.average_compliance_score * scored - sum) <= scored
                 /\ 2 * (sum - r.average_compliance_score * scored) <= scored

\* C19: organizations_with_additional_controls is the number of
\* organizations with at least one non-baseline control that is applicable
\* under the aggregator's rule: is_applicable is true, or the status is
\* fully, partially or low applied.
C19_AdditionalOrgs ==
    \A maps \in PublicEvalMaps, up \in BOOLEAN :
        get_public_stats(maps, up).organizations_with_additional_controls =
            Cardinality({org \in Orgs :
                \E c \in Range(controls) :
                    /\ ~c.is_baseline
                    /\ c.id \in DOMAIN maps[org]
                    /\ \/ maps[org][c.id].is_applicable = "True"
                       \/ maps[org][c.id].status \in
                              {FULLY_APPLIED, PARTIALLY_APPLIED, LOW_APPLIED}})

\* The organizations with at least one evaluation in domain dc.
OrgsInDomain(maps, dc) ==
    {org \in Orgs : \E c \in Range(controls) :
        c.domain_code = dc /\ c.id \in DOMAIN maps[org]}

\* avg, in tenths, is within a tenth of the mean over orgs of num[org] /
\* den[org], these being tenths too.
IsMeanOfOrgs(avg, num, den, orgs) ==
    LET k == Cardinality(orgs)
        d == ProductFn(den, orgs)
        n == SumFn([org \in Orgs |->
                       IF org \in orgs THEN num[org] * (d \div den[org])
                       ELSE 0], orgs)
    IN  /\ avg * d * k - n <= d * k
        /\ n - avg * d * k <= d * k

\* C20: for each domain, average_score is the mean, over the organizations
\* with at least one evaluation in that domain, of each such organization's
\* score for the domain, and 0 when there is none; the organization's score
\* being read either as its dashboard score for the domain or as the mean
\* credit (100, 50, 25, 0) of its evaluations in the domain.
C20_DomainMean ==
    \A maps \in PublicEvalMaps, up \in BOOLEAN :
        \A dc \in {c.domain_code : c \in Range(controls)} :
            LET avg == get_public_stats(maps, up).domain_average_scores[dc]
                orgs == OrgsInDomain(maps, dc)
                one == [org \in Orgs |-> 1]
                dashboard ==
                    [org \in Orgs |->
                        get_dashboard_overview(org, maps[org])
                            .domain_scores[dc].score]
                credits ==
                    [org \in Orgs |->
                        1000 * Cardinality({c \in ControlsOfDomain(dc) :
                                   StatusIn(maps[org], c) = FULLY_APPLIED})
                        + 500 * Cardinality({c \in ControlsOfDomain(dc) :
                                   StatusIn(maps[org], c) = PARTIALLY_APPLIED})
                        + 250 * Cardinality({c \in ControlsOfDomain(dc) :
                                   StatusIn(maps[org], c) = LOW_APPLIED})]
                rows ==
                    [org \in Orgs |->
                        IF org \in orgs
                        THEN Cardinality({c \in ControlsOfDomain(dc) :
                                             c.id \in DOMAIN maps[org]})
                        ELSE 1]
            IN  IF orgs = {} THEN avg = 0
                ELSE \/ IsMeanOfOrgs(avg, dashboard, one, orgs)
                     \/ IsMeanOfOrgs(avg, credits, rows, orgs)

(***************************************************************************)
(* C21: requests that name a missing reference                             *)
(***************************************************************************)
\* Control codes a request can carry that the catalog does not have.
MissingCodes == ControlCodes \ {c.control_code : c \in Range(controls)}

\* Process ids that are not a process of org: unused, or another tenant's.
MissingProcessIds(org) ==
    (1..MaxProcs) \ {p.id : p \in {q \in processes : q.organization_id = org}}

\* The HTTPException(404) of a handler is raised before anything is added
\* to the session: the request has no successor state, so no Evaluation,
\* Evidence, Comment, InformationAsset or ChangeHistory row appears.
NotFoundEvaluationRequests ==
    \A org \in Orgs : \A code \in MissingCodes :
        /\ \A status \in EvaluationStatus : \A ia \in IsApplicableInputs :
              ~ENABLED update_evaluation(org, code, status, ia)
        /\ \A content_type \in ALLOWED_MIME_TYPES :
              ~ENABLED upload_evidence(org, code, content_type)
        /\ ~ENABLED add_comment(org, code)

NotFoundAssetRequests ==
    \A org \in Orgs : \A process_id \in MissingProcessIds(org) :
        \A rating \in RatingInputs :
            ~ENABLED create_asset(org, process_id, rating)

\* C21: an otherwise valid update_evaluation, upload_evidence or add_comment
\* for a control code that is not in the catalog, and a create_asset whose
\* process_id is not a process of the caller's organization, fail and leave
\* the persisted state unchanged: no row of any table is created.
C21_NotFound == NotFoundEvaluationRequests /\ NotFoundAssetRequests

\* A state, after a request of orgB went through, in which the same requests
\* succeed for an existing reference (no table is full), a code is missing
\* from the catalog and the other tenant's process id is named.
C21_Witness ==
    /\ "ZZ-9" \in MissingCodes
    /\ history["orgB"] > 0
    /\ ENABLED update_evaluation("orgB", "AM-1", FULLY_APPLIED, None)
    /\ ENABLED upload_evidence("orgB", "AM-1", "application/pdf")
    /\ ENABLED add_comment("orgB", "AM-1")
    /\ \E p \in processes : /\ p.organization_id = "orgA"
                            /\ p.id \in MissingProcessIds("orgB")
                            /\ ENABLED create_asset("orgA", p.id, TenantRating)

(***************************************************************************)
(* C22: calculate_criticality on integers outside the declared intervals   *)
(***************************************************************************)
\* Integer columns of bia_processes and organization_settings carry no
\* range check of their own; the intervals are declared in schemas.py only.
\* One impact and one weight range around their interval, the others over
\* values inside and outside it.
ScorerImpacts ==
    [reputation : (0 - 2)..(ImpactMax + 2),
     external : {0 - 1, 0, ImpactMax, ImpactMax + 1},
     internal : {0, ImpactMax}, legal : {0, ImpactMax},
     economic : {0, ImpactMax}]

ScorerWeights ==
    [reputation : (WeightMin - 2)..(WeightMax + 2),
     external : {WeightMin, WeightMax, WeightMax + 1},
     internal : {WeightMin, WeightMax}, legal : {WeightMin, WeightMax},
     economic : {WeightMin, WeightMax}]

InitScorer ==
    /\ EmptyDb(<<>>)
    /\ args \in ScorerImpacts \X ScorerWeights
    /\ result = <<>>

\* calculate_criticality(process, settings) on rows with any integers.
CallScorer ==
    /\ result = <<>>
    /\ Len(args) = 2
    /\ result' = <<calculate_criticality(args[1], args[2])>>
    /\ UNCHANGED <<dbvars, args>>

NextScorer == CallScorer

SpecScorer == InitScorer /\ [][NextScorer]_vars

\* C22: for any integer impacts and weights, inside or outside the declared
\* intervals, a score calculate_criticality returns lies between 0 and 100
\* (the function has no failing path: it returns for every integer input).
C22_ScoreInRange == result # <<>> => result[1] \in 0..100

\* The cap the function does have: no integer input gives more than 100.
C22_Capped == result # <<>> => result[1] <= 100

\* Inside the declared intervals the returned score is within 0..100.
C22_InRangeInside ==
    (/\ result # <<>>
     /\ \A f \in CategoryNames : /\ args[1][f] \in 0..ImpactMax
                                 /\ args[2][f] \in WeightMin..WeightMax)
        => result[1] \in 0..100

(***************************************************************************)
(* Specification SpecLazy: evidence and comment requests of one            *)
(* organization on a database that already holds evaluations; the          *)
(* dashboard read before the requests is kept in result                    *)
(***************************************************************************)
\* The rows update_evaluation, upload_evidence and add_comment can have left
\* for control c: update_evaluation always sets is_applicable on an
\* additional control, so there it is unset only on a not_evaluated row.
ReachableRows(org, c) ==
    {r \in [id : {<<org, c.id, 1>>}, organization_id : {org},
            control_id : {c.id}, status : EvaluationStatus,
            is_applicable : IsApplicableInputs] :
        \/ c.is_baseline
        \/ r.is_applicable # None
        \/ r.status = NOT_EVALUATED}

\* No row, or one row, for control c.
RowOptions(org, c) == {{}} \cup {{r} : r \in ReachableRows(org, c)}

\* Every overview get_dashboard_overview can return to org in this state.
Overviews(org) == {get_dashboard_overview(org, m) : m \in EvalMaps(org)}

LazyBIAStates ==
    {[settings |-> {}, processes |-> {}, assets |-> <<>>],
     AssessedWith([c |-> 4, i |-> 0, a |-> 0])}

InitLazy ==
    /\ controls = CatalogTwoDomains
    /\ \E r1 \in RowOptions(DashOrg, controls[1]),
          r2 \in RowOptions(DashOrg, controls[2]),
          r3 \in RowOptions(DashOrg, controls[3]) :
          evaluations = r1 \cup r2 \cup r3
    /\ evidence = {}
    /\ comments = {}
    /\ history = [o \in Orgs |-> 0]
    /\ \E bia \in LazyBIAStates :
          /\ settings = bia.settings
          /\ processes = bia.processes
          /\ assets = bia.assets
    /\ args = <<evaluations>>
    /\ result = <<Overviews(DashOrg)>>

NextLazy ==
    \E code \in ControlCodes :
        \/ \E ct \in ContentTypeInputs : upload_evidence(DashOrg, code, ct)
        \/ \E id \in 1..MaxEvidence : delete_evidence(DashOrg, id)
        \/ add_comment(DashOrg, code)

SpecLazy == InitLazy /\ [][NextLazy]_vars

\* The rows created since the dashboard was read.
LazyRows == evaluations \ args[1]

\* Every request so far was on a control that had no Evaluation when the
\* dashboard was read: no evidence and no comment hangs on an older row.
OnlyLazyRequests ==
    /\ \A v \in evidence : v.evaluation_id \notin {e.id : e \in args[1]}
    /\ \A c \in comments : c.evaluation_id \notin {e.id : e \in args[1]}

\* C23: upload_evidence or add_comment on a control without an Evaluation of
\* the caller's organization creates one, with status not_evaluated and
\* is_applicable unset, and every value of that organization's dashboard
\* overview is the same after the requests as before them.
C23_LazyCreationUnseen ==
    OnlyLazyRequests =>
        /\ args[1] \subseteq evaluations
        /\ \A e \in LazyRows :
              /\ e.organization_id = DashOrg
              /\ e.status = NOT_EVALUATED
              /\ e.is_applicable = None
              /\ \A old \in args[1] : old.control_id # e.control_id
        /\ Overviews(DashOrg) = result[1]

\* Evidence was uploaded to a baseline control and a comment added to an
\* additional control, neither with an Evaluation before, while a third
\* control is evaluated and gives the overview a score.
C23_Witness ==
    /\ \E e \in LazyRows : /\ e.control_id = 1
                           /\ \E v \in evidence : v.evaluation_id = e.id
    /\ \E e \in LazyRows : /\ e.control_id = 3
                           /\ \E c \in comments : c.evaluation_id = e.id
    /\ \E e \in args[1] : e.status = PARTIALLY_APPLIED
    /\ \A o \in result[1] : o.overall_score > 0

(***************************************************************************)
(* Specification SpecRace: two sessions running update_evaluation,         *)
(* upload_evidence and add_comment step by step.  A request reads the      *)
(* committed rows at its lookup and writes at its db.commit(); the other   *)
(* session may run in between (upload_evidence awaits file.read() between  *)
(* the two, and two worker processes share the database).                  *)
(***************************************************************************)
Sessions == {1, 2}

RaceKinds == {"update_evaluation", "upload_evidence", "add_comment"}

RaceCodes == {"AM-1", "AM-2", "ZZ-9"}

RaceStatusInputs == {FULLY_APPLIED, NOT_EVALUATED}

\* A session between two requests.
IdleRequest ==
    [pc |-> "idle", kind |-> "", org |-> "", control |-> <<>>,
     found |-> <<>>, status |-> NOT_EVALUATED]

\* Requests that have run their lookup and not yet committed.
InFlight(kinds) ==
    Cardinality({i \in Sessions : /\ args[i].pc = "found"
                                  /\ args[i].kind \in kinds})

\* The first half of a handler: the control lookup (404 when missing) and
\* db.query(Evaluation).filter(...).first(), which returns a committed row
\* or None.
Lookup(i, kind, org, control_code, status) ==
    /\ args[i].pc = "idle"
    /\ ControlsByCode(control_code) # {}
    /\ HistoryRows(Orgs) + InFlight(RaceKinds) < MaxHistory
    /\ kind = "upload_evidence" =>
          Cardinality(evidence) + InFlight({kind}) < MaxEvidence
    /\ kind = "add_comment" =>
          Cardinality(comments) + InFlight({kind}) < MaxComments
    /\ \E control \in ControlsByCode(control_code) :
       \E found \in (IF FindEvaluation(org, control) = {} THEN {<<>>}
                     ELSE {<<e>> : e \in FindEvaluation(org, control)}) :
          args' = [args EXCEPT ![i] =
                      [pc |-> "found", kind |-> kind, org |-> org,
                       control |-> <<control>>, found |-> found,
                       status |-> status]]
    /\ UNCHANGED <<dbvars, result>>

\* The second half: "if not evaluation: Evaluation(...); db.add", the writes
\* of the handler, log_change and db.commit().  The UPDATE of a found row
\* goes by primary key to the row as it is committed now.
Commit(i) ==
    LET r == args[i]
        control == r.control[1]
        row == IF r.found = <<>> THEN NewEvaluation(r.org, control)
               ELSE CHOOSE e \in evaluations : e.id = r.found[1].id
    IN  /\ r.pc = "found"
        /\ IF r.kind = "update_evaluation"
           THEN /\ evaluations' = (evaluations \ {row}) \cup
                       {UpdatedEvaluation(row, control, r.status, None)}
                /\ UNCHANGED <<evidence, comments>>
           ELSE IF r.kind = "upload_evidence"
           THEN /\ evaluations' = evaluations \cup {row}
                /\ \E id \in (1..MaxEvidence) \ {v.id : v \in evidence} :
                      evidence' = evidence \cup
                          {[id |-> id, evaluation_id |-> row.id]}
                /\ UNCHANGED comments
           ELSE /\ evaluations' = evaluations \cup {row}
                /\ comments' = comments \cup
                       {[id |-> Cardinality(comments) + 1,
                         evaluation_id |-> row.id]}
                /\ UNCHANGED evidence
        /\ log_change(r.org)
        /\ args' = [args EXCEPT ![i] = IdleRequest]
        /\ UNCHANGED <<controls, settings, processes, assets, result>>

InitRace ==
    /\ EmptyDb(CatalogSmall)
    /\ args = [i \in Sessions |-> IdleRequest]
    /\ result = <<>>

NextRace ==
    \E i \in Sessions :
        \/ \E kind \in RaceKinds, org \in Orgs, code \in RaceCodes,
              status \in RaceStatusInputs :
              Lookup(i, kind, org, code, status)
        \/ Commit(i)

SpecRace == InitRace /\ [][NextRace]_vars

\* C24: once two get-or-create requests for the same (organization,
\* control) pair that both ran their lookup before either committed have
\* completed, there is at most one Evaluation for that pair.
C24_OneEvaluationAfterRace ==
    (\A i \in Sessions : args[i].pc = "idle") =>
        \A e1, e2 \in evaluations :
            (/\ e1.organization_id = e2.organization_id
             /\ e1.control_id = e2.control_id) => e1 = e2

(***************************************************************************)
(* Specification SpecRaceBIA: two sessions; create_process and             *)
(* update_process run in two steps (the read of the weights with the       *)
(* score computed from them, then db.commit()), update_settings in one     *)
(***************************************************************************)
IdleProcessRequest ==
    [pc |-> "idle", kind |-> "", org |-> "", process_id |-> 0,
     impact |-> EmptyData, criticality_score |-> 0]

\* create_process requests that have read the weights and not yet committed.
CreatesInFlight ==
    Cardinality({i \in Sessions : /\ args[i].pc = "read"
                                  /\ args[i].kind = "create_process"})

\* create_process up to "process.criticality_score = calculate_criticality(
\* process, settings)": the settings row is created and committed when
\* missing, then the score is computed from the weights just read.
create_process_read(i, org, impact) ==
    /\ args[i].pc = "idle"
    /\ Cardinality(processes) + CreatesInFlight < MaxProcs
    /\ settings' = EnsureSettings(org)
    /\ \E s \in {x \in EnsureSettings(org) : x.organization_id = org} :
          args' = [args EXCEPT ![i] =
              [pc |-> "read", kind |-> "create_process", org |-> org,
               process_id |-> 0, impact |-> impact,
               criticality_score |->
                   calculate_criticality(impact, s.weight)]]
    /\ UNCHANGED <<controls, evaluations, evidence, comments, history,
                   processes, assets, result>>

\* update_process up to the same assignment: the process lookup (404), the
\* setattr loop, the settings query and the score.
update_process_read(i, org, process_id, data) ==
    /\ args[i].pc = "idle"
    /\ data.nulls = {}
    /\ \E process \in {p \in processes : /\ p.id = process_id
                                         /\ p.organization_id = org} :
       \E s \in FindSettings(org) :
          LET impact == SetAttrs(process.impact, data.values)
          IN  args' = [args EXCEPT ![i] =
                  [pc |-> "read", kind |-> "update_process", org |-> org,
                   process_id |-> process_id, impact |-> data.values,
                   criticality_score |->
                       calculate_criticality(impact, s.weight)]]
    /\ UNCHANGED <<dbvars, result>>

\* db.add(process) / the UPDATE of the columns the request assigned, and
\* db.commit().
process_commit(i) ==
    LET r == args[i]
    IN  /\ r.pc = "read"
        /\ IF r.kind = "create_process"
           THEN \E id \in (1..MaxProcs) \ {p.id : p \in processes} :
                   processes' = processes \cup
                       {[id |-> id, organization_id |-> r.org,
                         impact |-> r.impact,
                         criticality_score |-> r.criticality_score]}
           ELSE \E process \in {p \in processes : p.id = r.process_id} :
                   processes' = (processes \ {process}) \cup
                       {[process EXCEPT
                           !.impact = SetAttrs(process.impact, r.impact),
                           !.criticality_score = r.criticality_score]}
        /\ args' = [args EXCEPT ![i] = IdleProcessRequest]
        /\ UNCHANGED <<controls, evaluations, evidence, comments, history,
                       settings, assets, result>>

RaceImpactInputs ==
    {DefaultImpact,
     [reputation |-> 1, external |-> 0, internal |-> 3, legal |-> 2,
      economic |-> 4]}

RaceProcessUpdateInputs ==
    {[values |-> [legal |-> 3], nulls |-> {}],
     [values |-> EmptyData, nulls |-> {"legal"}]}

RaceSettingsInputs == {[legal |-> 1], [legal |-> 4]}

InitRaceBIA ==
    /\ EmptyDb(CatalogSmall)
    /\ args = [i \in Sessions |-> IdleProcessRequest]
    /\ result = <<>>

NextRaceBIA ==
    \E org \in Orgs :
        \/ \E data \in RaceSettingsInputs : update_settings(org, data)
        \/ \E i \in Sessions :
              \/ \E impact \in RaceImpactInputs :
                    create_process_read(i, org, impact)
              \/ \E id \in 1..MaxProcs, data \in RaceProcessUpdateInputs :
                    update_process_read(i, org, id, data)
              \/ process_commit(i)

SpecRaceBIA == InitRaceBIA /\ [][NextRaceBIA]_vars

\* C25: once an update_settings and a create_process or update_process of
\* the same organization that interleaved (weights read before the settings
\* commit, score committed after the bulk recompute) have both completed,
\* every process's criticality_score equals the formula applied to its
\* impacts and the committed weights.
C25_NoStaleScoreAfterRace ==
    (\A i \in Sessions : args[i].pc = "idle") => C7_NoStaleScores

(***************************************************************************)
(* Specification SpecRaise: one update_evaluation without an explicit      *)
(* is_applicable on a database that already holds evaluations, at each     *)
(* tier; the dashboard read before the request is kept in result           *)
(***************************************************************************)
InitRaise ==
    /\ controls = CatalogTwoDomains
    /\ \E r1 \in RowOptions(DashOrg, controls[1]),
          r2 \in RowOptions(DashOrg, controls[2]),
          r3 \in RowOptions(DashOrg, controls[3]) :
          evaluations = r1 \cup r2 \cup r3
    /\ evidence = {}
    /\ comments = {}
    /\ history = [o \in Orgs |-> 0]
    /\ \E bia \in DashBIAStates :
          /\ settings = bia.settings
          /\ processes = bia.processes
          /\ assets = bia.assets
    /\ args = <<evaluations>>
    /\ result = <<Overviews(DashOrg)>>

\* The one request after the dashboard was read.
NextRaise ==
    /\ evaluations = args[1]
    /\ \E code \in ControlCodes, status \in EvaluationStatus :
          update_evaluation(DashOrg, code, status, None)

SpecRaise == InitRaise /\ [][NextRaise]_vars

\* The order of the statuses by credit.
Credit(status) ==
    IF status = FULLY_APPLIED THEN 3
    ELSE IF status = PARTIALLY_APPLIED THEN 2
    ELSE IF status = LOW_APPLIED THEN 1
    ELSE 0

\* The rows of DashOrg for control c, when the dashboard was read and now.
OldRows(c) == {e \in args[1] : e.control_id = c.id}

NewRows(c) == {e \in evaluations : e.control_id = c.id}

OldStatus(c) ==
    IF OldRows(c) = {} THEN NOT_EVALUATED
    ELSE (CHOOSE e \in OldRows(c) : TRUE).status

\* The request raised the status of c, and nothing else changed.
Raised(c) ==
    /\ \A d \in Range(controls) : d # c => NewRows(d) = OldRows(d)
    /\ \E e \in NewRows(c) : Credit(e.status) > Credit(OldStatus(c))

\* Neither the score of c's domain nor overall_score is lower than it was.
NotLower(c) ==
    \A after \in Overviews(DashOrg), before \in result[1] :
        /\ after.overall_score >= before.overall_score
        /\ after.domain_scores[c.domain_code].score
              >= before.domain_scores[c.domain_code].score

\* C26 as stated: raising one control's status through update_evaluation
\* without an explicit is_applicable, everything else unchanged, never
\* decreases its domain score nor overall_score, for baseline and additional
\* controls alike.
C26_RaiseNeverLowers == \A c \in Range(controls) : Raised(c) => NotLower(c)

\* Both loops of the overview counted c among the applicable controls
\* before the request: a baseline control, or an evaluated additional
\* control that is flagged applicable or has an applied status.
AlreadyApplicable(c) ==
    \/ c.is_baseline
    \/ \E e \in OldRows(c) : /\ e.status # NOT_EVALUATED
                             /\ \/ e.is_applicable = "True"
                                \/ e.status \in APPLIED

\* C26, amended: raising the status of a control that the overview already
\* counts as applicable (every baseline control, and an evaluated additional
\* control that is flagged applicable or applied) never decreases its domain
\* score nor overall_score.  A raise that makes an additional control
\* applicable adds it to the denominator and can lower both.
C26_RaiseOfApplicable ==
    \A c \in Range(controls) :
        (Raised(c) /\ AlreadyApplicable(c)) => NotLower(c)

\* An additional control counted as applicable was raised from not_applied
\* and the overall score went up.
C26_Witness ==
    \E c \in Range(controls) :
        /\ ~c.is_baseline
        /\ Raised(c)
        /\ AlreadyApplicable(c)
        /\ OldStatus(c) = NOT_APPLIED
        /\ \E after \in Overviews(DashOrg), before \in result[1] :
              after.overall_score > before.overall_score

(***************************************************************************)
(* C27: a domain, or the catalog, with every control fully applied         *)
(***************************************************************************)
\* DashOrg has a fully_applied Evaluation for every control of cs.
AllFully(cs) ==
    \A c \in cs : \E e \in evaluations : /\ e.organization_id = DashOrg
                                         /\ e.control_id = c.id
                                         /\ e.status = FULLY_APPLIED

DomainCodes == {c.domain_code : c \in Range(controls)}

AdditionalControls(cs) == {c \in cs : ~c.is_baseline}

\* C27 as stated: a domain whose controls are all fully_applied scores 100.0
\* and is green at every tier, and a catalog whose controls are all
\* fully_applied has overall_score 100.0, whatever the number of additional
\* controls of each domain.
C27_AllFullyIsHundred ==
    \A o \in Overviews(DashOrg) :
        /\ \A dc \in DomainCodes :
              AllFully(ControlsOfDomain(dc)) =>
                  /\ o.domain_scores[dc].score = 1000
                  /\ o.domain_scores[dc].status = "green"
        /\ AllFully(Range(controls)) => o.overall_score = 1000

\* C27, amended: a domain whose controls are all fully_applied scores 100.0
\* and is green at every tier whose additional multiplier does not exceed
\* the number of additional controls of the domain, and a catalog whose
\* controls are all fully_applied has overall_score 100.0 when it has at
\* least domain_count * multiplier additional controls.
C27_AllFullyWithEnoughAdditional ==
    \A o \in Overviews(DashOrg) :
        /\ \A dc \in DomainCodes :
              (/\ AllFully(ControlsOfDomain(dc))
               /\ Cardinality(AdditionalControls(ControlsOfDomain(dc)))
                     >= o.domain_scores[dc].additional_control_target) =>
                  /\ o.domain_scores[dc].score = 1000
                  /\ o.domain_scores[dc].status = "green"
        /\ (/\ AllFully(Range(controls))
            /\ Cardinality(AdditionalControls(Range(controls)))
                  >= o.additional_controls_required) =>
               o.overall_score = 1000

\* The last control of the catalog was just set to fully_applied at the
\* Medium tier: every domain and the catalog are at 100.0.
C27_Witness ==
    /\ evaluations # args[1]
    /\ AllFully(Range(controls))
    /\ \A o \in Overviews(DashOrg) :
          /\ o.bia_level = "Medium"
          /\ o.additional_controls_required = 2
          /\ o.overall_score = 1000
          /\ \A dc \in DomainCodes : o.domain_scores[dc].score = 1000

(***************************************************************************)
(* Specification SpecUneven: the dashboard of one organization on a        *)
(* catalog whose additional controls are spread unevenly over two domains  *)
(***************************************************************************)
\* Domain AM with one baseline and two additional controls, domain CM with
\* one additional control.
CatalogUneven ==
    <<Control(1, "AM-1", "AM", TRUE), Control(2, "AM-2", "AM", FALSE),
      Control(3, "AM-3", "AM", FALSE), Control(4, "CM-1", "CM", FALSE)>>

InitUneven ==
    /\ controls = CatalogUneven
    /\ evaluations = {}
    /\ evidence = {}
    /\ comments = {}
    /\ history = [o \in Orgs |-> 0]
    /\ \E bia \in DashBIAStates :
          /\ settings = bia.settings
          /\ processes = bia.processes
          /\ assets = bia.assets
    /\ args = <<>>
    /\ result = <<>>

NextUneven ==
    \E code \in ControlCodes, status \in EvaluationStatus,
       ia \in IsApplicableInputs :
        update_evaluation(DashOrg, code, status, ia)

SpecUneven == InitUneven /\ [][NextUneven]_vars

\* The sum of the effective totals of the domains of an overview.
DomainEffectiveTotals(o) ==
    SumFn([dc \in DOMAIN o.domain_scores |->
              o.domain_scores[dc].effective_total], DOMAIN o.domain_scores)

\* C28: the effective total behind overall_score, baseline_count +
\* max(additional_applicable, domain_count * multiplier), equals the sum
\* over the domains of their effective totals, baseline in domain +
\* max(additional applicable in domain, multiplier).
C28_DenominatorsAgree ==
    \A o \in Overviews(DashOrg) :
        o.overall_effective_total = DomainEffectiveTotals(o)

\* The same with no Evaluation left at not_evaluated, so that both loops
\* count the same applicable controls.
C28_AgreeWhenAllEvaluated ==
    (\A e \in evaluations : e.status # NOT_EVALUATED) =>
        C28_DenominatorsAgree

\* The two totals do agree when the catalog has a single domain or the
\* tier target is zero, provided no Evaluation is left at not_evaluated.
C28_AgreeAtLowTier ==
    (/\ \A e \in evaluations : e.status # NOT_EVALUATED
     /\ DashboardTier(DashOrg).additional_multiplier = 0) =>
        C28_DenominatorsAgree

(***************************************************************************)
(* C29: the overall counts and the domain counts                           *)
(***************************************************************************)
\* The sum over the domains of field f of the domain entries of overview o.
DomainSum(o, f) ==
    SumFn([dc \in DOMAIN o.domain_scores |-> o.domain_scores[dc][f]],
          DOMAIN o.domain_scores)

StatusCountsAreSums(o) ==
    /\ o.fully_applied = DomainSum(o, "fully_applied")
    /\ o.partially_applied = DomainSum(o, "partially_applied")
    /\ o.low_applied = DomainSum(o, "low_applied")
    /\ o.not_applied = DomainSum(o, "not_applied")

ApplicableCountsAreSums(o) ==
    /\ o.additional_applicable_controls = DomainSum(o, "additional_applicable")
    /\ o.applicable_controls = DomainSum(o, "applicable_controls")

\* C29: in every overview additional_applicable_controls, applicable_controls,
\* fully_applied, partially_applied, low_applied and not_applied equal the
\* sums of the corresponding counts of the domains, in every reachable
\* evaluation state (an Evaluation with is_applicable = true and status
\* not_evaluated included).
C29_CountsAreSums ==
    \A o \in Overviews(DashOrg) :
        StatusCountsAreSums(o) /\ ApplicableCountsAreSums(o)

\* The four status counts are the sums in every state.
C29_StatusCounts == \A o \in Overviews(DashOrg) : StatusCountsAreSums(o)

\* The two applicable counts are the sums when no additional control is
\* flagged applicable while still not evaluated.
C29_ApplicableCountsUnflagged ==
    (\A e \in evaluations :
        ~(e.status = NOT_EVALUATED /\ e.is_applicable = "True"
          /\ \E c \in Range(controls) : c.id = e.control_id /\ ~c.is_baseline))
        => \A o \in Overviews(DashOrg) : ApplicableCountsAreSums(o)

(***************************************************************************)
(* C30: the is_applicable rule of update_evaluation                        *)
(***************************************************************************)
\* is_applicable of the Evaluation of org for control c before the request;
\* unset when there is none.
IsApplicableBefore(org, c) ==
    IF FindEvaluation(org, c) = {} THEN None
    ELSE (CHOOSE e \in FindEvaluation(org, c) : TRUE).is_applicable

\* The value the rule gives for a request on control c.
IsApplicableRule(org, c, status, ia) ==
    IF ia # None THEN ia
    ELSE IF c.is_baseline THEN IsApplicableBefore(org, c)
    ELSE IF status = NOT_EVALUATED THEN "False"
    ELSE "True"

\* C30: update_evaluation sets is_applicable to the explicit value when the
\* request has one; otherwise, for a non-baseline control, to false when the
\* new status is not_evaluated and to true for every other status
\* (not_applied included), and for a baseline control it leaves
\* is_applicable as it was.
C30_IsApplicableRule ==
    [][\A org \in Orgs, code \in ControlCodes, status \in EvaluationStatus,
          ia \in IsApplicableInputs :
          (/\ history'[org] = history[org] + 1
           /\ update_evaluation(org, code, status, ia)) =>
              \A c \in ControlsByCode(code) :
                  \E e \in evaluations' :
                      /\ e.organization_id = org
                      /\ e.control_id = c.id
                      /\ e.status = status
                      /\ e.is_applicable = IsApplicableRule(org, c, status, ia)
                      /\ evaluations' \ {e} = evaluations \ FindEvaluation(org, c)
      ]_vars

\* Three requests without an explicit value have acted: an additional
\* control set to not_applied is applicable, another organization's reset to
\* not_evaluated is not, and a baseline control keeps the unset value.
C30_Witness ==
    /\ \E e \in evaluations : /\ e.control_id = 2
                              /\ e.status = NOT_APPLIED
                              /\ e.is_applicable = "True"
    /\ \E e \in evaluations : /\ e.control_id = 2
                              /\ e.status = NOT_EVALUATED
                              /\ e.is_applicable = "False"
    /\ \E e \in evaluations : /\ e.control_id = 1
                              /\ e.status = FULLY_APPLIED
                              /\ e.is_applicable = None

====
